---- MODULE Spec2Model ----
(***************************************************************************)
(* A model of the kaska front end: the recursive-descent parsers, the      *)
(* scope-based name/type resolvers and the scope stacks they use.          *)
(*                                                                         *)
(* Spans are half-open ranges <<start, end>>.  Every token of the model is *)
(* one byte wide and tokens are adjacent, so a span is a range of token    *)
(* offsets; in the resolver they are counted from the first token of the   *)
(* statement being resolved.                                               *)
(***************************************************************************)
EXTENDS Integers, Sequences, FiniteSets, TLC

VARIABLES
    variant,      \* which resolver of the repository is running
    scopes,       \* the scope stack: a sequence of maps name -> symbol
    curr_scope,   \* Resolver.curr_scope (0-based index into scopes)
    errors,       \* the diagnostic buffer of the running stage
    stmt,         \* the statement the resolve loop visited last
    result,       \* what resolving that statement returned
    idx,          \* number of statements the resolve loop has visited
    halted,       \* the process was aborted by a panic
    source,       \* Parser.source / Parser.tokens: the token vector
    pos,          \* Parser.pos (0-based index into the token vector)
    uid,          \* Parser.uid: the next node id (later parser only)
    ast,          \* the statements the parse loop has pushed
    returned,     \* the running stage has returned its result
    text,         \* Lexer.source: the bytes of the source buffer
    tokens,       \* the token vector Lexer::lex is building
    compiler,     \* which compiler of the repository is running
    registers,    \* RegisterAlloc.registers: occupied or not, by index
    allocated,    \* what the call of RegisterAlloc::alloc just made returned
    freed,        \* the argument of the call of RegisterAlloc::free just made
    instrs,       \* Compiler.instrs: the instructions emitted so far
    symbols,      \* Compiler.symbols: name -> register
    file,         \* the lines written to the .ksb file
    created,      \* File::create has made (or emptied) the .ksb file
    compiled      \* number of statements the compile loop has visited

vars == <<variant, scopes, curr_scope, errors, stmt, result, idx, halted,
          source, pos, uid, ast, returned, text, tokens, compiler,
          registers, allocated, freed, instrs, symbols, file, created,
          compiled>>

\* The state of a parser; no resolver or scope operation touches it.
parser_vars == <<source, pos, uid, ast, returned>>

\* The state of a resolver that no parser operation touches.
resolver_vars == <<scopes, curr_scope, stmt, result, idx>>

\* The state of a lexer and that of a compiler with its register pool.
lexer_vars == <<text, tokens>>

compiler_vars ==
    <<compiler, registers, allocated, freed, instrs, symbols, file, created,
      compiled>>

\* ----------------------------------------------------------------- bounds

MaxStmts == 2     \* statements of a program handed to a resolver
MaxScopes == 3    \* depth of a scope stack

\* const MAX_REGISTERS
MAX_REGISTERS == 16

\* RegisterAlloc::new, and the state of the stages that are not running.
RegisterAlloc_new == [i \in 0..(MAX_REGISTERS - 1) |-> FALSE]

\* No register: no call was made, or the call panicked.
NoRegister == MAX_REGISTERS + 1

NoLexer ==
    /\ text = << >>
    /\ tokens = << >>

NoCompiler ==
    /\ compiler = "none"
    /\ registers = RegisterAlloc_new
    /\ allocated = NoRegister
    /\ freed = NoRegister
    /\ instrs = << >>
    /\ symbols = << >>
    /\ file = << >>
    /\ created = FALSE
    /\ compiled = 0

Names == {"x", "y"}

\* ------------------------------------------------------------------ types

Types == {"Integer", "Float", "String", "Boolean", "Nil"}

NoSpan == <<0, 0>>

Ok(t) == [tag |-> "Ok", typ |-> t, kind |-> "-", span |-> NoSpan]

Err(k, sp) == [tag |-> "Err", typ |-> "-", kind |-> k, span |-> sp]

Panic == [tag |-> "Panic", typ |-> "-", kind |-> "-", span |-> NoSpan]

Error(k, sp) == [kind |-> k, span |-> sp]

\* ------------------------------------------------------------ expressions

LiteralKinds == {"Integer", "Float", "String", "Boolean"}

Literal(k, v, s) == [kind |-> k, value |-> v, span |-> <<s, s + 1>>]

Ident(n, s) == [kind |-> "Ident", name |-> n, span |-> <<s, s + 1>>]

Binary(l, r, o) ==
    [kind |-> "Binary", lhs |-> l, rhs |-> r, op |-> o,
     span |-> <<l.span[1], r.span[2]>>]

Assignment(a, v, o) ==
    [kind |-> "Assignment", assignee |-> a, value |-> v, op |-> o,
     span |-> <<a.span[1], v.span[2]>>]

\* The primary expressions that can start at token offset s.
Primaries(s) ==
    {Literal(k, 1, s) : k \in LiteralKinds} \cup {Ident(n, s) : n \in Names}

\* The initializers and assigned values of the model: a primary, or two
\* primaries joined by `-` (ast::Parser::parse_binary).
Values(s) ==
    Primaries(s)
    \cup {Binary(l, r, "Minus") : l \in Primaries(s), r \in Primaries(s + 2)}

\* The assignees of the model: a name, or a literal (what parse_assignment
\* accepts on the left of `=`: any primary).
Assignees(s) == {Ident(n, s) : n \in Names} \cup {Literal("Integer", 1, s)}

\* ------------------------------------------------------------- statements

NoType == [kind |-> "None"]

TypeNames == {"int", "float"}

\* `let|mut name [: typ] = value`: the value starts after 3 or 5 tokens.
VariableDecl(m, n, t, v) ==
    [kind |-> "VariableDecl", mutable |-> m, name |-> n, typ |-> t,
     value |-> v, span |-> <<0, v.span[2]>>]

Expression(e) == [kind |-> "Expression", expr |-> e, span |-> e.span]

NoStmt == [kind |-> "NoStmt"]

VariableDecls ==
    {VariableDecl(m, n, NoType, v) :
        m \in BOOLEAN, n \in Names, v \in Values(3)}
    \cup
    {VariableDecl(m, n, Ident(t, 3), v) :
        m \in BOOLEAN, n \in Names, t \in TypeNames, v \in Values(5)}

\* Parser::parse_stmt only returns an expression statement for an assignment.
ExpressionStmts ==
    {Expression(Assignment(a, v, "AssignEqual")) :
        a \in Assignees(0), v \in Values(2)}

ResolverStmts == VariableDecls \cup ExpressionStmts

\* Statements of the later syntax tree (parser::ast, compiler::ast):
\* `let name = value`, whose span starts at the name, and `function` ...
Variable(n, t, v) ==
    [kind |-> "Variable", name |-> n, typ |-> t, value |-> v,
     span |-> <<1, v.span[2]>>]

\* `function name() body end`, without parameters or return type.
FunctionBody(n, b) ==
    [kind |-> "Function", name |-> n, body |-> b, span |-> <<1, 2>>]

Function(n) == FunctionBody(n, << >>)

\* Names a type checker is asked about: the program's and a type's.
CheckerPrimaries(s) == Primaries(s) \cup {Ident("int", s)}

CheckerValues(s) ==
    CheckerPrimaries(s)
    \cup {Binary(l, r, "Sub") : l \in Primaries(s), r \in Primaries(s + 2)}

CheckerStmts ==
    {Variable(n, NoType, v) : n \in Names, v \in CheckerValues(3)}
    \cup {Function(n) : n \in Names}
    \cup {FunctionBody(n, <<Variable(m, NoType, Literal("Integer", 1, 3))>>) :
             n \in Names, m \in Names}
    \cup {FunctionBody("x", <<Variable("y", NoType, Literal("Integer", 1, 3)),
                              Variable("x", NoType, Ident("q", 3))>>)}

\* ----------------------------------------------- analysis::value::Scope

EmptyScope == << >>

ScopeHas(scope, name) == name \in DOMAIN scope

Scope_add(scope, name, value) ==
    [n \in (DOMAIN scope) \cup {name} |-> IF n = name THEN value ELSE scope[n]]

Value(t, m) == [typ |-> t, mutable |-> m]

NoValue == [typ |-> "-", mutable |-> FALSE]

\* --------------------------------------------- analysis::resolver::Resolver

\* `for scope in scopes.iter().rev()`: the position (1-based) of the first
\* scope holding name met when walking from position i down to the first
\* scope, 0 when none does.
RECURSIVE scan_rev(_, _, _)
scan_rev(scs, i, name) ==
    IF i = 0 THEN 0
    ELSE IF ScopeHas(scs[i], name) THEN i
    ELSE scan_rev(scs, i - 1, name)

\* The same walk from position i up to the last scope.
RECURSIVE scan_fwd(_, _, _)
scan_fwd(scs, i, name) ==
    IF i > Len(scs) THEN 0
    ELSE IF ScopeHas(scs[i], name) THEN i
    ELSE scan_fwd(scs, i + 1, name)

\* Resolver::lookup walks the scopes curr_scope, ..., 0.
lookup_index(scs, curr, name) == scan_rev(scs, curr + 1, name)

Found(scs, curr, name) == lookup_index(scs, curr, name) # 0

lookup(scs, curr, name) ==
    IF Found(scs, curr, name)
    THEN scs[lookup_index(scs, curr, name)][name]
    ELSE NoValue

\* A push that keeps the binding a name already has in the current scope.
push_if_absent(scs, curr, name, value) ==
    IF ScopeHas(scs[curr + 1], name) THEN scs
    ELSE [scs EXCEPT ![curr + 1] = Scope_add(@, name, value)]

push(scs, curr, name, value) ==
    [scs EXCEPT ![curr + 1] = Scope_add(@, name, value)]

resolve_typename(name) ==
    CASE name = "int" -> "Integer"
      [] name = "float" -> "Float"
      [] name = "string" -> "String"
      [] name = "bool" -> "Boolean"
      [] OTHER -> "Nil"

\* binary_type without the widening of Integer and Float.
binary_type_no_widening(lhs_type, rhs_type, span) ==
    IF lhs_type = rhs_type THEN Ok(lhs_type)
    ELSE Err("TypeMismatch", span)

binary_type(lhs_type, rhs_type, span) ==
    IF lhs_type = rhs_type THEN Ok(lhs_type)
    ELSE IF \/ (lhs_type = "Integer" /\ rhs_type = "Float")
            \/ (lhs_type = "Float" /\ rhs_type = "Integer")
         THEN Ok("Float")
         ELSE Err("TypeMismatch", span)

\* check_assignee without the test of the mutable flag.
check_assignee_no_constant(scs, curr, assignee, span) ==
    IF assignee.kind # "Ident"
    THEN Err("SyntaxError", assignee.span)
    ELSE IF ~Found(scs, curr, assignee.name)
    THEN Err("UnknownIdentifier", assignee.span)
    ELSE Ok("Nil")

\* check_assignee reporting an undeclared assignee on the whole expression.
check_assignee_wide_span(scs, curr, assignee, span) ==
    IF assignee.kind # "Ident"
    THEN Err("SyntaxError", assignee.span)
    ELSE IF ~Found(scs, curr, assignee.name)
    THEN Err("UnknownIdentifier", span)
    ELSE IF ~lookup(scs, curr, assignee.name).mutable
    THEN Err("AssignToConstant", span)
    ELSE Ok("Nil")

\* The checks of an assignee (the match on assignee.kind and on lookup):
\* the first failing one, or Ok.
check_assignee(scs, curr, assignee, span) ==
    IF assignee.kind # "Ident"
    THEN Err("SyntaxError", assignee.span)
    ELSE IF ~Found(scs, curr, assignee.name)
    THEN Err("UnknownIdentifier", assignee.span)
    ELSE IF ~lookup(scs, curr, assignee.name).mutable
    THEN Err("AssignToConstant", span)
    ELSE Ok("Nil")

\* assign_type letting an Integer value into a Float variable.
assign_type_widening(original_type, new_type, span) ==
    IF original_type # new_type
       /\ ~(original_type = "Float" /\ new_type = "Integer")
    THEN Err("TypeMismatch", span)
    ELSE Ok(new_type)

\* "assert similarity" of the assignee's type and the value's.
assign_type(original_type, new_type, span) ==
    IF original_type # new_type
    THEN Err("TypeMismatch", span)
    ELSE Ok(new_type)

RECURSIVE resolve_expr(_, _, _)
resolve_expr(scs, curr, expr) ==
    CASE expr.kind \in LiteralKinds -> Ok(expr.kind)
      [] expr.kind = "Ident" ->
            IF Found(scs, curr, expr.name)
            THEN Ok(lookup(scs, curr, expr.name).typ)
            ELSE Ok("Nil")
      [] expr.kind = "Assignment" ->
            LET checked == check_assignee(scs, curr, expr.assignee, expr.span)
            IN  IF checked.tag # "Ok" THEN checked
                ELSE LET original_type == resolve_expr(scs, curr, expr.assignee)
                         new_type == resolve_expr(scs, curr, expr.value)
                     IN  IF original_type.tag # "Ok" THEN original_type
                         ELSE IF new_type.tag # "Ok" THEN new_type
                         ELSE assign_type(original_type.typ, new_type.typ,
                                          expr.value.span)
      [] expr.kind = "Binary" ->
            LET lhs_type == resolve_expr(scs, curr, expr.lhs)
                rhs_type == resolve_expr(scs, curr, expr.rhs)
            IN  IF lhs_type.tag # "Ok" THEN lhs_type
                ELSE IF rhs_type.tag # "Ok" THEN rhs_type
                ELSE binary_type(lhs_type.typ, rhs_type.typ, expr.span)
      [] OTHER -> Panic

\* The annotation of a declaration as a type: a type name, or Nil.
strong_type(typ) ==
    IF typ.kind = "Ident" THEN resolve_typename(typ.name) ELSE "Nil"

\* annotation_matches letting an Integer value under a float annotation.
annotation_matches_widening(typ, value_type) ==
    \/ typ = NoType
    \/ strong_type(typ) = value_type
    \/ (strong_type(typ) = "Float" /\ value_type = "Integer")

\* "if a type annotation is present, check it": no annotation, or one
\* that names exactly the type of the value.
annotation_matches(typ, value_type) ==
    typ = NoType \/ strong_type(typ) = value_type

\* resolve_stmt as a pair: what it returns and the scope stack it leaves.
resolve_stmt(scs, curr, s) ==
    CASE s.kind = "VariableDecl" ->
            LET value_type == resolve_expr(scs, curr, s.value)
            IN  IF value_type.tag # "Ok"
                THEN [ret |-> value_type, scopes |-> scs]
                ELSE IF ~annotation_matches(s.typ, value_type.typ)
                THEN [ret |-> Err("TypeMismatch", s.value.span), scopes |-> scs]
                ELSE [ret |-> Ok("Nil"),
                      scopes |-> push(scs, curr, s.name,
                                      Value(value_type.typ, s.mutable))]
      [] s.kind = "Expression" ->
            LET r == resolve_expr(scs, curr, s.expr)
            IN  [ret |-> IF r.tag = "Ok" THEN Ok("Nil") ELSE r, scopes |-> scs]
      [] OTHER -> [ret |-> Ok("Nil"), scopes |-> scs]

\* A resolve loop that returns at the first statement that fails.
Resolver_resolve_until_error(s) ==
    /\ variant = "analysis"
    /\ ~halted
    /\ stmt = NoStmt
    /\ idx < MaxStmts
    /\ LET r == resolve_stmt(scopes, curr_scope, s)
       IN  /\ scopes' = r.scopes
           /\ result' = r.ret
           /\ halted' = (r.ret.tag # "Ok")
           /\ errors' = IF r.ret.tag = "Err"
                        THEN Append(errors, Error(r.ret.kind, r.ret.span))
                        ELSE errors
    /\ stmt' = s
    /\ idx' = idx + 1
    /\ UNCHANGED <<variant, curr_scope>>
    /\ UNCHANGED parser_vars
    /\ UNCHANGED <<lexer_vars, compiler_vars>>

\* One iteration of the loop of Resolver::resolve.
Resolver_resolve(s) ==
    /\ variant = "analysis"
    /\ ~halted
    /\ stmt = NoStmt
    /\ idx < MaxStmts
    /\ LET r == resolve_stmt(scopes, curr_scope, s)
       IN  /\ scopes' = r.scopes
           /\ result' = r.ret
           /\ halted' = (r.ret.tag = "Panic")
           /\ errors' = IF r.ret.tag = "Err"
                        THEN Append(errors, Error(r.ret.kind, r.ret.span))
                        ELSE errors
    /\ stmt' = s
    /\ idx' = idx + 1
    /\ UNCHANGED <<variant, curr_scope>>
    /\ UNCHANGED parser_vars
    /\ UNCHANGED <<lexer_vars, compiler_vars>>

\* ------------------------------------------ compiler::typechecker::TypeChecker

\* lookup_all walking the scopes from the global one inwards.
lookup_all_index_outermost(scs, id) == scan_fwd(scs, 1, id)

\* lookup_all walks the scopes from the closest one to the global one.
lookup_all_index(scs, id) == scan_rev(scs, Len(scs), id)

lookup_all(scs, id) ==
    IF lookup_all_index(scs, id) = 0 THEN "-"
    ELSE scs[lookup_all_index(scs, id)][id]

store_here(scs, id, typ) ==
    [scs EXCEPT ![Len(scs)] = Scope_add(@, id, typ)]

check_binary_type(t_lhs, t_rhs, span) ==
    IF t_lhs = t_rhs THEN Ok(t_lhs)
    ELSE IF \/ (t_lhs = "Integer" /\ t_rhs = "Float")
            \/ (t_lhs = "Float" /\ t_rhs = "Integer")
         THEN Ok("Float")
         ELSE Err("TypeMismatch", span)

RECURSIVE check_expr(_, _)
check_expr(scs, expr) ==
    CASE expr.kind = "Integer" -> Ok("Integer")
      [] expr.kind = "Float" -> Ok("Float")
      [] expr.kind = "Binary" ->
            LET t_lhs == check_expr(scs, expr.lhs)
                t_rhs == check_expr(scs, expr.rhs)
            IN  IF t_lhs.tag # "Ok" THEN t_lhs
                ELSE IF t_rhs.tag # "Ok" THEN t_rhs
                ELSE check_binary_type(t_lhs.typ, t_rhs.typ,
                                       <<expr.lhs.span[1], expr.rhs.span[2]>>)
      [] expr.kind = "Ident" ->
            IF lookup_all_index(scs, expr.name) # 0
            THEN Ok(lookup_all(scs, expr.name))
            ELSE Err("UnknownIdentifier", expr.span)
      [] OTHER -> Panic

check_stmt(scs, s) ==
    CASE s.kind = "Variable" ->
            LET t_value == check_expr(scs, s.value)
            IN  IF t_value.tag # "Ok"
                THEN [ret |-> t_value, scopes |-> scs]
                ELSE [ret |-> Ok("Nil"),
                      scopes |-> store_here(scs, s.name, t_value.typ)]
      [] OTHER -> [ret |-> Panic, scopes |-> scs]

\* One iteration of the loop of TypeChecker::check.
TypeChecker_check(s) ==
    /\ variant = "compiler"
    /\ ~halted
    /\ stmt = NoStmt
    /\ idx < MaxStmts
    /\ LET r == check_stmt(scopes, s)
       IN  /\ scopes' = r.scopes
           /\ result' = r.ret
           /\ halted' = (r.ret.tag = "Panic")
           /\ errors' = IF r.ret.tag = "Err"
                        THEN Append(errors, Error(r.ret.kind, r.ret.span))
                        ELSE errors
    /\ stmt' = s
    /\ idx' = idx + 1
    /\ UNCHANGED <<variant, curr_scope>>
    /\ UNCHANGED parser_vars
    /\ UNCHANGED <<lexer_vars, compiler_vars>>

\* ------------------- semantics::type_checker::TypeChecker and SymbolTable

get_primitive_from_ident(id) ==
    CASE id = "int" -> "Int"
      [] id = "float" -> "Float"
      [] id = "str" -> "Str"
      [] id = "bool" -> "Bool"
      [] id = "None" -> "None"
      [] OTHER -> "-"

sym(typ, nullible) == [typ |-> typ, nullible |-> nullible]

SymbolTable_lookup(ctxs, id) ==
    IF lookup_all_index(ctxs, id) = 0 THEN sym("-", FALSE)
    ELSE ctxs[lookup_all_index(ctxs, id)][id]

store_local(ctxs, id, s) ==
    [ctxs EXCEPT ![Len(ctxs)] = Scope_add(@, id, s)]

TypeChecker_expr(ctxs, expr) ==
    CASE expr.kind = "Integer" -> Ok("Int")
      [] expr.kind = "Float" -> Ok("Float")
      [] expr.kind = "Ident" ->
            IF get_primitive_from_ident(expr.name) # "-"
            THEN Ok(get_primitive_from_ident(expr.name))
            ELSE IF lookup_all_index(ctxs, expr.name) # 0
            THEN Ok(SymbolTable_lookup(ctxs, expr.name).typ)
            ELSE Err("UnknownIdentifier", expr.span)
      [] OTHER -> Panic

RECURSIVE TypeChecker_stmt(_, _)
\* `for s in body { self.stmt(&s)?; }`: the statements of a function body,
\* up to the first one that fails.
RECURSIVE TypeChecker_body(_, _)
TypeChecker_body(ctxs, body) ==
    IF body = << >> THEN [ret |-> Ok("Nil"), scopes |-> ctxs]
    ELSE LET r == TypeChecker_stmt(ctxs, Head(body))
         IN  IF r.ret.tag # "Ok" THEN r
             ELSE TypeChecker_body(r.scopes, Tail(body))

TypeChecker_stmt(ctxs, s) ==
    CASE s.kind = "Variable" ->
            LET t_val == TypeChecker_expr(ctxs, s.value)
            IN  IF t_val.tag # "Ok"
                THEN [ret |-> t_val, scopes |-> ctxs]
                ELSE [ret |-> Ok("Nil"),
                      scopes |-> store_local(ctxs, s.name, sym(t_val.typ, FALSE))]
      [] s.kind = "Function" ->
            \* no return type, no parameters: the name is stored, then the
            \* body is gone through in the context the function is in
            TypeChecker_body(
                store_local(ctxs, s.name, sym("Function", FALSE)), s.body)

\* One iteration of the loop of semantics TypeChecker::resolve.
TypeChecker_resolve(s) ==
    /\ variant = "semantics"
    /\ ~halted
    /\ stmt = NoStmt
    /\ idx < MaxStmts
    /\ LET r == TypeChecker_stmt(scopes, s)
       IN  /\ scopes' = r.scopes
           /\ result' = r.ret
           /\ halted' = (r.ret.tag = "Panic")
           /\ errors' = IF r.ret.tag = "Err"
                        THEN Append(errors, Error(r.ret.kind, r.ret.span))
                        ELSE errors
    /\ stmt' = s
    /\ idx' = idx + 1
    /\ UNCHANGED <<variant, curr_scope>>
    /\ UNCHANGED parser_vars
    /\ UNCHANGED <<lexer_vars, compiler_vars>>

\* ------------------------------------------------------- the resolver stage

InitResolver ==
    /\ variant \in {"analysis", "compiler", "semantics"}
    /\ scopes = <<EmptyScope>>
    /\ curr_scope = 0
    /\ errors = << >>
    /\ stmt = NoStmt
    /\ result = Ok("Nil")
    /\ idx = 0
    /\ halted = FALSE
    /\ source = << >>
    /\ pos = 0
    /\ uid = 0
    /\ ast = << >>
    /\ returned = FALSE
    /\ NoLexer
    /\ NoCompiler

\* The resolve loop goes on to its next iteration: the statement of the
\* finished iteration and the Result matched on are dropped.
next_stmt ==
    /\ ~halted
    /\ stmt # NoStmt
    /\ stmt' = NoStmt
    /\ result' = Ok("Nil")
    /\ UNCHANGED <<variant, scopes, curr_scope, errors, idx, halted>>
    /\ UNCHANGED parser_vars
    /\ UNCHANGED <<lexer_vars, compiler_vars>>

NextResolver ==
    \/ \E s \in ResolverStmts : Resolver_resolve(s)
    \/ \E s \in CheckerStmts : TypeChecker_check(s)
    \/ \E s \in CheckerStmts : TypeChecker_resolve(s)
    \/ next_stmt

SpecResolver == InitResolver /\ [][NextResolver]_vars

\* ------------------------------------------------------- the scope stacks

\* SymbolTable::step_into and TypeChecker::enter_scope.
step_into ==
    /\ variant \in {"compiler", "semantics"}
    /\ ~halted
    /\ Len(scopes) < MaxScopes
    /\ scopes' = Append(scopes, EmptyScope)
    /\ UNCHANGED <<variant, curr_scope, errors, stmt, result, idx, halted>>
    /\ UNCHANGED parser_vars
    /\ UNCHANGED <<lexer_vars, compiler_vars>>

\* SymbolTable::step_out and TypeChecker::exit_scope: both abort the
\* process when only the global scope is left.
step_out ==
    /\ variant \in {"compiler", "semantics"}
    /\ ~halted
    /\ IF Len(scopes) = 1
       THEN halted' = TRUE /\ scopes' = scopes
       ELSE halted' = FALSE /\ scopes' = SubSeq(scopes, 1, Len(scopes) - 1)
    /\ UNCHANGED <<variant, curr_scope, errors, stmt, result, idx>>
    /\ UNCHANGED parser_vars
    /\ UNCHANGED <<lexer_vars, compiler_vars>>

\* The symbols a caller stores.
SymbolsOf(v) ==
    CASE v = "analysis" -> {Value(ty, m) : ty \in {"Integer", "Float"}, m \in BOOLEAN}
      [] v = "compiler" -> {"Integer", "Float"}
      [] v = "semantics" -> {sym(ty, FALSE) : ty \in {"Int", "Float"}}

\* Resolver::push, TypeChecker::store_here and SymbolTable::store_local.
store(name, symbol) ==
    /\ ~halted
    /\ scopes' = CASE variant = "analysis" -> push(scopes, curr_scope, name, symbol)
                   [] variant = "compiler" -> store_here(scopes, name, symbol)
                   [] variant = "semantics" -> store_local(scopes, name, symbol)
    /\ UNCHANGED <<variant, curr_scope, errors, stmt, result, idx, halted>>
    /\ UNCHANGED parser_vars
    /\ UNCHANGED <<lexer_vars, compiler_vars>>

InitScopes == InitResolver

NextScopes ==
    \/ step_into
    \/ step_out
    \/ \E n \in Names : \E s \in SymbolsOf(variant) : store(n, s)

SpecScopes == InitScopes /\ [][NextScopes]_vars

\* ------------------------------------------------------------------ claims

\* A step of a resolve loop that visits a statement.
ResolveStep == stmt = NoStmt /\ stmt' # NoStmt

\* The step added exactly the diagnostic d to the buffer.
Raised(d) == errors' = Append(errors, d)

\* The step added exactly one diagnostic, of kind k.
RaisedKind(k) ==
    /\ Len(errors') = Len(errors) + 1
    /\ SubSeq(errors', 1, Len(errors)) = errors
    /\ errors'[Len(errors')].kind = k

\* The result type the specification gives a binary operation, "-" if none.
BinaryTable(L, R) ==
    IF L = R THEN L
    ELSE IF {L, R} = {"Integer", "Float"} THEN "Float"
    ELSE "-"

OperandType(e) ==
    IF variant = "analysis" THEN resolve_expr(scopes, curr_scope, e)
    ELSE check_expr(scopes, e)

DeclaredTypeAfter(n) ==
    IF variant = "analysis" THEN lookup(scopes', curr_scope', n).typ
    ELSE lookup_all(scopes', n)

\* C1: a binary operation over operand types (L, R) resolves to L when
\* L = R, to Float when {L, R} = {Integer, Float}, and to a TypeMismatch
\* diagnostic and no type for every other pair: seen on a declaration
\* without annotation whose initializer is the operation, which then binds
\* the name to that type, or raises the TypeMismatch and binds nothing.
C1_BinaryResolution ==
    [][(/\ ResolveStep
        /\ variant \in {"analysis", "compiler"}
        /\ stmt'.kind \in {"VariableDecl", "Variable"}
        /\ stmt'.typ = NoType
        /\ stmt'.value.kind = "Binary"
        /\ OperandType(stmt'.value.lhs).tag = "Ok"
        /\ OperandType(stmt'.value.rhs).tag = "Ok")
       => LET T == BinaryTable(OperandType(stmt'.value.lhs).typ,
                               OperandType(stmt'.value.rhs).typ)
          IN  IF T # "-"
              THEN /\ result'.tag = "Ok"
                   /\ errors' = errors
                   /\ DeclaredTypeAfter(stmt'.name) = T
              ELSE /\ Raised(Error("TypeMismatch", stmt'.value.span))
                   /\ scopes' = scopes]_vars

\* `let x = 1 - 2.0` was resolved and x is a Float.
C1_Witness ==
    /\ variant = "analysis"
    /\ stmt.kind = "VariableDecl"
    /\ stmt.typ = NoType
    /\ stmt.value.kind = "Binary"
    /\ stmt.value.lhs.kind = "Integer"
    /\ stmt.value.rhs.kind = "Float"
    /\ result.tag = "Ok"
    /\ lookup(scopes, curr_scope, stmt.name).typ = "Float"

\* An assignment statement to the name of a symbol of the scope stack.
AssignsTo(s, mutable) ==
    /\ s.kind = "Expression"
    /\ s.expr.kind = "Assignment"
    /\ s.expr.assignee.kind = "Ident"
    /\ Found(scopes, curr_scope, s.expr.assignee.name)
    /\ lookup(scopes, curr_scope, s.expr.assignee.name).mutable = mutable

\* C2: an assignment whose assignee names a symbol declared without the
\* mutable flag yields exactly one AssignToConstant diagnostic, whatever
\* its right-hand side is.
C2_AssignToConstant ==
    [][(ResolveStep /\ variant = "analysis" /\ AssignsTo(stmt', FALSE))
       => RaisedKind("AssignToConstant")]_vars

\* An assignment of an ill-typed value to a constant was resolved, and the
\* one diagnostic of the run is AssignToConstant.
C2_Witness ==
    /\ variant = "analysis"
    /\ AssignsTo(stmt, FALSE)
    /\ stmt.expr.value.kind = "Binary"
    /\ stmt.expr.value.lhs.kind = "Integer"
    /\ stmt.expr.value.rhs.kind = "String"
    /\ Len(errors) = 1
    /\ errors[1].kind = "AssignToConstant"

\* C3: for an assignment to a declared mutable name whose right-hand side
\* resolves without error, a diagnostic is raised iff the right-hand side's
\* type differs from the name's declared type, and it is a TypeMismatch on
\* the value's span: there is no coercion on assignment.
C3_AssignTypes ==
    [][(/\ ResolveStep
        /\ variant = "analysis"
        /\ AssignsTo(stmt', TRUE)
        /\ resolve_expr(scopes, curr_scope, stmt'.expr.value).tag = "Ok")
       => IF lookup(scopes, curr_scope, stmt'.expr.assignee.name).typ
               = resolve_expr(scopes, curr_scope, stmt'.expr.value).typ
          THEN errors' = errors /\ result'.tag = "Ok"
          ELSE Raised(Error("TypeMismatch", stmt'.expr.value.span))]_vars

\* An Integer literal was assigned to a mutable Float variable and the
\* TypeMismatch is on the literal.
C3_Witness ==
    /\ variant = "analysis"
    /\ AssignsTo(stmt, TRUE)
    /\ lookup(scopes, curr_scope, stmt.expr.assignee.name).typ = "Float"
    /\ stmt.expr.value.kind = "Integer"
    /\ errors = <<Error("TypeMismatch", stmt.expr.value.span)>>

\* C4: the checks of an assignment are applied in a fixed order and the
\* first failing one is the only diagnostic of the statement: SyntaxError
\* for a non-identifier assignee, else UnknownIdentifier on the assignee's
\* span for an undeclared name, else AssignToConstant for an immutable
\* symbol; only then does the right-hand side decide.
C4_AssignmentOrder ==
    [][(/\ ResolveStep
        /\ variant = "analysis"
        /\ stmt'.kind = "Expression"
        /\ stmt'.expr.kind = "Assignment")
       => LET a == stmt'.expr.assignee
              v == resolve_expr(scopes, curr_scope, stmt'.expr.value)
          IN  IF a.kind # "Ident"
              THEN Raised(Error("SyntaxError", a.span))
              ELSE IF ~Found(scopes, curr_scope, a.name)
              THEN Raised(Error("UnknownIdentifier", a.span))
              ELSE IF ~lookup(scopes, curr_scope, a.name).mutable
              THEN RaisedKind("AssignToConstant")
              ELSE IF v.tag = "Err"
              THEN Raised(Error(v.kind, v.span))
              ELSE \/ errors' = errors
                   \/ RaisedKind("TypeMismatch")]_vars

\* `y = 1 - "s"` with y undeclared was resolved: the one diagnostic is the
\* UnknownIdentifier on y, not the TypeMismatch of the value.
C4_Witness ==
    /\ variant = "analysis"
    /\ stmt.kind = "Expression"
    /\ stmt.expr.assignee.kind = "Ident"
    /\ ~Found(scopes, curr_scope, stmt.expr.assignee.name)
    /\ stmt.expr.value.kind = "Binary"
    /\ stmt.expr.value.lhs.kind = "Integer"
    /\ stmt.expr.value.rhs.kind = "String"
    /\ errors = <<Error("UnknownIdentifier", stmt.expr.assignee.span)>>

\* The name is declared in no scope of the scope stack.
Undeclared(n) == \A i \in 1..Len(scopes) : ~ScopeHas(scopes[i], n)

\* C5: in every resolver, a declaration whose initializer is a reference
\* to a name of the program declared in no scope yields an UnknownIdentifier diagnostic
\* for the statement, never a type.
C5_UndeclaredIdentifier ==
    [][(/\ ResolveStep
        /\ stmt'.kind \in {"VariableDecl", "Variable"}
        /\ stmt'.value.kind = "Ident"
        /\ stmt'.value.name \in Names
        /\ Undeclared(stmt'.value.name))
       => /\ Raised(Error("UnknownIdentifier", stmt'.value.span))
          /\ scopes' = scopes]_vars

\* The type an annotation names.
AnnotatedType(typ) ==
    CASE typ.name = "int" -> "Integer"
      [] typ.name = "float" -> "Float"

\* C6: for a declaration with a type annotation whose initializer resolves
\* without error, no diagnostic is raised iff the annotated type equals
\* the initializer's type, and the name is then bound to that type with the
\* declaration's flag; otherwise exactly one TypeMismatch is raised, on
\* the initializer's span, and nothing is bound.
C6_Annotation ==
    [][(/\ ResolveStep
        /\ variant = "analysis"
        /\ stmt'.kind = "VariableDecl"
        /\ stmt'.typ # NoType
        /\ resolve_expr(scopes, curr_scope, stmt'.value).tag = "Ok")
       => LET t == resolve_expr(scopes, curr_scope, stmt'.value).typ
          IN  IF AnnotatedType(stmt'.typ) = t
              THEN /\ errors' = errors
                   /\ lookup(scopes', curr_scope', stmt'.name)
                        = Value(t, stmt'.mutable)
              ELSE /\ Raised(Error("TypeMismatch", stmt'.value.span))
                   /\ scopes' = scopes]_vars

\* `let x: int = 5.0` was resolved: one TypeMismatch on the initializer.
C6_Witness ==
    /\ variant = "analysis"
    /\ stmt.kind = "VariableDecl"
    /\ stmt.typ # NoType
    /\ stmt.typ.name = "int"
    /\ stmt.value.kind = "Float"
    /\ ~stmt.mutable
    /\ errors = <<Error("TypeMismatch", stmt.value.span)>>
    /\ ~Found(scopes, curr_scope, stmt.name)

\* Whether the lookup of the running variant finds the name, and what.
LookupFinds(scs, n) ==
    IF variant = "analysis" THEN Found(scs, curr_scope, n)
    ELSE lookup_all_index(scs, n) # 0

LookupOf(scs, n) ==
    CASE variant = "analysis" -> lookup(scs, curr_scope, n)
      [] variant = "compiler" -> lookup_all(scs, n)
      [] variant = "semantics" -> SymbolTable_lookup(scs, n)

\* The scopes of a stack that contain the name.
Holders(scs, n) == {i \in 1..Len(scs) : n \in DOMAIN scs[i]}

Innermost(scs, n) == CHOOSE i \in Holders(scs, n) : \A j \in Holders(scs, n) : j <= i

\* lookup on the stack scs answers with the innermost scope that has n.
LookupIsInnermost(scs, n) ==
    /\ LookupFinds(scs, n) <=> Holders(scs, n) # {}
    /\ Holders(scs, n) # {} => LookupOf(scs, n) = scs[Innermost(scs, n)][n]

\* C7: after any sequence of scope pushes, pops and stores into the current
\* scope, lookup returns the symbol of the innermost scope that contains
\* the name and nothing only when no scope contains it; a push hides
\* nothing, a store changes only the lookup of the stored name, and a pop
\* gives back what the scopes below the popped one answer.
C7_InnermostLookup ==
    [][\A n \in Names :
        /\ LookupIsInnermost(scopes', n)
        /\ Len(scopes') = Len(scopes) + 1
             => /\ LookupFinds(scopes', n) = LookupFinds(scopes, n)
                /\ LookupOf(scopes', n) = LookupOf(scopes, n)
        /\ (Len(scopes') = Len(scopes) /\ ~halted')
             => IF n \in DOMAIN scopes'[Len(scopes')]
                THEN LookupOf(scopes', n) = scopes'[Len(scopes')][n]
                ELSE /\ LookupFinds(scopes', n) = LookupFinds(scopes, n)
                     /\ LookupOf(scopes', n) = LookupOf(scopes, n)
        /\ Len(scopes') = Len(scopes) - 1
             => /\ LookupIsInnermost(SubSeq(scopes, 1, Len(scopes) - 1), n)
                /\ LookupOf(scopes', n)
                     = LookupOf(SubSeq(scopes, 1, Len(scopes) - 1), n)
       ]_vars

\* x of the global scope is hidden by an inner x while y of the global
\* scope is still seen from the inner scope.
C7_Witness ==
    /\ variant = "semantics"
    /\ Len(scopes) = 2
    /\ DOMAIN scopes[1] = {"x", "y"}
    /\ DOMAIN scopes[2] = {"x"}
    /\ scopes[1]["x"].typ = "Int"
    /\ scopes[2]["x"].typ = "Float"
    /\ SymbolTable_lookup(scopes, "x").typ = "Float"
    /\ SymbolTable_lookup(scopes, "y") = scopes[1]["y"]

\* ------------------------------------------------------------ the tokens

MaxTokens == 3    \* length of the token vectors enumerated exhaustively
MaxChain == 3     \* primaries of an enumerated operator chain
MaxBody == 2      \* statements of an enumerated function body

I32Max == 2147483647

Digits == <<"0", "1", "2", "3", "4", "5", "6", "7", "8", "9">>

IsDigit(c) == \E i \in 1..10 : Digits[i] = c

DigitValue(c) == (CHOOSE i \in 1..10 : Digits[i] = c) - 1

\* A token without its span, and a token vector with the spans filled in:
\* the i-th token covers the offsets [i-1, i).
Tok(k, lx) == [kind |-> k, lexeme |-> lx]

Token(k, sp, lx) == [kind |-> k, span |-> sp, lexeme |-> lx]

Token_eof == Tok("EOF", <<"<", "E", "O", "F", ">">>)

Spanned(toks) ==
    [i \in 1..Len(toks) |-> Token(toks[i].kind, <<i - 1, i>>, toks[i].lexeme)]

\* str::replace("_", "")
replace_underscores(lex) == SelectSeq(lex, LAMBDA c : c # "_")

\* str::parse::<i32> of a lexeme the lexer can produce (digits and '_'):
\* -1 stands for Err (empty, a character that is no digit, or a value above
\* i32::MAX); the accumulator never exceeds I32Max.
RECURSIVE digits_value(_, _)
digits_value(lex, acc) ==
    IF lex = << >> THEN acc
    ELSE IF ~IsDigit(Head(lex)) THEN -1
    ELSE IF acc > (I32Max - DigitValue(Head(lex))) \div 10 THEN -1
    ELSE digits_value(Tail(lex), acc * 10 + DigitValue(Head(lex)))

parse_i32(lex) == IF lex = << >> THEN -1 ELSE digits_value(lex, 0)

\* str::parse::<f32> succeeds on digits with at most one '.', at least one
\* digit; the value is kept as its digits.
parse_f32_ok(lex) ==
    /\ \A i \in 1..Len(lex) : IsDigit(lex[i]) \/ lex[i] = "."
    /\ \E i \in 1..Len(lex) : IsDigit(lex[i])
    /\ Cardinality({i \in 1..Len(lex) : lex[i] = "."}) <= 1

\* Results of the parse functions: Ok carries the node, Err the error, and
\* both the cursor the function left behind; Abort is a panic.
POk(n, p, u) == [tag |-> "Ok", node |-> n, pos |-> p, uid |-> u]

PErr(k, sp, p, u) == [tag |-> "Err", err |-> Error(k, sp), pos |-> p, uid |-> u]

PAbort == [tag |-> "Panic"]

\* ---------------------------------------------- ast/parser.rs (the ast parser)

\* Parser::current, Parser::peek, Parser::advance: reads past the end give
\* the last token, and the cursor never leaves the vector.
current(src, p) == IF Len(src) > p THEN src[p + 1] ELSE src[Len(src)]

peek(src, p) == IF Len(src) > p + 1 THEN src[p + 2] ELSE src[Len(src)]

advance(src, p) == IF Len(src) <= p + 1 THEN p ELSE p + 1

expect_binary(k) == IF k = "Minus" THEN "Minus" ELSE "None"

expect_assign(k) == IF k = "Equal" THEN "AssignEqual" ELSE "None"

\* The node a primary token parses to, or NoExpr.
NoExpr == [kind |-> "NoExpr"]

literal(tk) ==
    CASE tk.kind = "Integer" ->
            IF parse_i32(replace_underscores(tk.lexeme)) >= 0
            THEN [kind |-> "Integer",
                  value |-> parse_i32(replace_underscores(tk.lexeme)),
                  span |-> tk.span]
            ELSE NoExpr
      [] tk.kind = "Float" ->
            IF parse_f32_ok(replace_underscores(tk.lexeme))
            THEN [kind |-> "Float",
                  value |-> replace_underscores(tk.lexeme),
                  span |-> tk.span]
            ELSE NoExpr
      [] tk.kind = "String" ->
            [kind |-> "String", value |-> tk.lexeme, span |-> tk.span]
      [] tk.kind = "Ident" ->
            [kind |-> "Ident", name |-> tk.lexeme, span |-> tk.span]
      [] tk.kind = "False" ->
            [kind |-> "Boolean", value |-> FALSE, span |-> tk.span]
      [] tk.kind = "True" ->
            [kind |-> "Boolean", value |-> TRUE, span |-> tk.span]
      [] OTHER -> NoExpr

parse_literal(src, p) ==
    IF literal(current(src, p)).kind # "NoExpr"
    THEN POk(literal(current(src, p)), p, 0)
    ELSE PErr("ParseError", current(src, p).span, p, 0)

\* `let x = e; body` and `let x = e?; body` of the source: the value is
\* computed once and handed on.
Bind(x, F(_)) == F(x)

RECURSIVE parse_expr(_, _)

\* The node parse_binary builds once both operands are parsed.
binary_left_nested(expr, rhs, op) ==
    IF rhs.kind = "Binary"
    THEN Binary(Binary(expr, rhs.lhs, op), rhs.rhs, rhs.op)
    ELSE Binary(expr, rhs, op)

binary(expr, rhs, op) == Binary(expr, rhs, op)

parse_binary(src, p) ==
    Bind(parse_literal(src, p), LAMBDA expr :
    IF expr.tag # "Ok" THEN expr
    ELSE IF expect_binary(peek(src, p).kind) = "None" THEN expr
    ELSE Bind(parse_expr(src, advance(src, advance(src, p))), LAMBDA rhs :
         IF rhs.tag # "Ok" THEN rhs
         ELSE POk(binary(expr.node, rhs.node,
                         expect_binary(peek(src, p).kind)),
                  rhs.pos, 0)))

parse_assignment(src, p) ==
    Bind(parse_binary(src, p), LAMBDA expr :
    IF expr.tag # "Ok" THEN expr
    ELSE IF expect_assign(peek(src, expr.pos).kind) = "None" THEN expr
    ELSE Bind(parse_expr(src, advance(src, advance(src, expr.pos))),
              LAMBDA value :
         IF value.tag # "Ok" THEN value
         ELSE POk(Assignment(expr.node, value.node,
                             expect_assign(peek(src, expr.pos).kind)),
                  value.pos, 0)))

parse_expr(src, p) == parse_assignment(src, p)

\* p1 is the cursor after the first advance(), on the name.
parse_variable_decl(src, p) ==
    Bind(advance(src, p), LAMBDA p1 :
    IF current(src, p1).kind # "Ident" THEN PAbort
    ELSE Bind(IF peek(src, p1).kind = "Colon"
              \* expect(Colon) consumed the colon, advance() went to the type
              THEN parse_literal(src, advance(src, advance(src, p1)))
              ELSE POk(NoType, p1, 0), LAMBDA typ :
         IF typ.tag # "Ok"
         THEN PErr("SyntaxError", current(src, typ.pos).span, typ.pos, 0)
         ELSE IF peek(src, typ.pos).kind # "Equal"
         THEN PErr("SyntaxError", current(src, typ.pos).span, typ.pos, 0)
         ELSE Bind(parse_expr(src, advance(src, advance(src, typ.pos))),
                   LAMBDA value :
              IF value.tag # "Ok" THEN value
              ELSE POk([kind |-> "VariableDecl",
                        mutable |-> (current(src, p).kind = "Mut"),
                        name |-> current(src, p1).lexeme,
                        typ |-> typ.node, value |-> value.node,
                        span |-> <<current(src, p).span[1],
                                   value.node.span[2]>>],
                       value.pos, 0))))

\* The expressions parse_stmt lets stand as a statement of their own.
is_meaningful_or_binary(expr) == expr.kind \in {"Assignment", "Binary"}

is_meaningful(expr) == expr.kind = "Assignment"

parse_stmt(src, p) ==
    IF current(src, p).kind \in {"Let", "Mut"} THEN parse_variable_decl(src, p)
    ELSE Bind(parse_expr(src, p), LAMBDA expr :
         IF expr.tag # "Ok" THEN expr
         ELSE IF is_meaningful(expr.node)
              THEN POk(Expression(expr.node), expr.pos, 0)
         ELSE PErr("SyntaxError", current(src, p).span, expr.pos, 0))

\* One iteration of the loop of Parser::parse: a statement, the semicolon
\* expected after it, one step forward.
Parser_parse ==
    /\ variant = "ast"
    /\ ~halted /\ ~returned
    /\ current(source, pos).kind # "EOF"
    /\ \E r \in {parse_stmt(source, pos)} :
         IF r.tag = "Panic"
         THEN /\ halted' = TRUE
              /\ UNCHANGED <<ast, errors, pos>>
         ELSE \E errs \in {IF r.tag = "Err" THEN Append(errors, r.err)
                           ELSE errors} :
                /\ ast' = IF r.tag = "Ok" THEN Append(ast, r.node) ELSE ast
                /\ IF peek(source, r.pos).kind = "Semicolon"
                   THEN /\ errors' = errs
                        /\ pos' = advance(source, advance(source, r.pos))
                   ELSE /\ errors' =
                             Append(errs, Error("SyntaxError",
                                                current(source, r.pos).span))
                        /\ pos' = advance(source, r.pos)
                /\ halted' = halted
    /\ UNCHANGED <<variant, source, uid, returned>>
    /\ UNCHANGED resolver_vars
    /\ UNCHANGED <<lexer_vars, compiler_vars>>

\* The loop of Parser::parse ends at the end-of-stream token.
Parser_parse_return ==
    /\ variant = "ast"
    /\ ~halted /\ ~returned
    /\ current(source, pos).kind = "EOF"
    /\ returned' = TRUE
    /\ UNCHANGED <<variant, source, pos, uid, ast, errors, halted>>
    /\ UNCHANGED resolver_vars
    /\ UNCHANGED <<lexer_vars, compiler_vars>>

\* ---------------------------------------- parser/parser.rs (the later parser)

\* Parser::consume: one step forward, never past the end-of-stream token.
consume(src, p) == IF p + 1 > Len(src) - 1 THEN Len(src) - 1 ELSE p + 1

at_end(src, p) == current(src, p).kind = "EOF"

RECURSIVE skip_newlines(_, _)
skip_newlines(src, p) ==
    IF current(src, p).kind = "Newline" THEN skip_newlines(src, consume(src, p))
    ELSE p

RECURSIVE skip_next_newlines(_, _)
skip_next_newlines(src, p) ==
    IF peek(src, p).kind = "Newline"
    THEN skip_next_newlines(src, consume(src, p))
    ELSE p

\* Parser::sync stops on the token that ends the line, Parser::sync_after_fn
\* on the `end` of the function.
RECURSIVE sync(_, _)
sync(src, p) ==
    IF current(src, p).kind \in {"EOF", "Semicolon", "Newline"} THEN p
    ELSE sync(src, consume(src, p))

\* sync_after_fn stopping where sync stops.
sync_after_fn_as_sync(src, p) == sync(src, p)

RECURSIVE sync_after_fn(_, _)
sync_after_fn(src, p) ==
    IF current(src, p).kind \in {"EOF", "End"} THEN p
    ELSE sync_after_fn(src, consume(src, p))

\* Operator::binary and Operator::assignment
Operator_binary(k) ==
    CASE k = "Plus" -> "Add"
      [] k = "Minus" -> "Sub"
      [] k = "Star" -> "Mul"
      [] k = "Slash" -> "Div"
      [] k = "StarStar" -> "Exp"
      [] k = "SlashSlash" -> "Floor"
      [] k = "PipePipe" -> "LogOr"
      [] k = "AmprsndAmprsnd" -> "LogAnd"
      [] k = "Less" -> "Lt"
      [] k = "LessEqual" -> "LtEq"
      [] k = "More" -> "Mt"
      [] k = "MoreEqual" -> "MtEq"
      [] k = "Bang" -> "Bang"
      [] k = "BangEqual" -> "BangEq"
      [] k = "EqualEqual" -> "EqEq"
      [] OTHER -> "None"

Operator_assignment(k) ==
    CASE k = "Equal" -> "Eq"
      [] k = "PlusEqual" -> "AddEq"
      [] k = "MinusEqual" -> "SubEq"
      [] k = "StarEqual" -> "MulEq"
      [] k = "SlashEqual" -> "DivEq"
      [] k = "StarStarEqual" -> "ExpEq"
      [] k = "SlashSlashEqual" -> "FloorEq"
      [] OTHER -> "None"

\* The expr! and stmt! macros: every node carries the id it was given.
ExprCall(u, callee, args, sp) ==
    [kind |-> "Call", callee |-> callee, args |-> args, span |-> sp, uid |-> u]

ExprBinary(u, lhs, rhs, op, sp) ==
    [kind |-> "Binary", lhs |-> lhs, rhs |-> rhs, op |-> op, span |-> sp,
     uid |-> u]

ExprParameter(u, name, ty, sp) ==
    [kind |-> "Parameter", name |-> name, ty |-> ty, span |-> sp, uid |-> u]

StmtVariable(u, name, typ, value, sp) ==
    [kind |-> "Variable", name |-> name, typ |-> typ, value |-> value,
     span |-> sp, uid |-> u]

StmtFunction(u, name, ret, params, body, sp) ==
    [kind |-> "Function", name |-> name, ret |-> ret, params |-> params,
     body |-> body, span |-> sp, uid |-> u]

\* parse_integer, parse_float, parse_ident, parse_string and the boolean
\* arm of expr_literal; underscores are not removed here.
expr_literal(src, p, u) ==
    LET tk == current(src, p)
    IN  CASE tk.kind = "Integer" ->
                IF parse_i32(tk.lexeme) >= 0
                THEN POk([kind |-> "Integer", value |-> parse_i32(tk.lexeme),
                          span |-> tk.span, uid |-> u], p, u + 1)
                ELSE PErr("ParseError", tk.span, p, u)
          [] tk.kind = "Float" ->
                IF parse_f32_ok(tk.lexeme)
                THEN POk([kind |-> "Float", value |-> tk.lexeme,
                          span |-> tk.span, uid |-> u], p, u + 1)
                ELSE PErr("ParseError", tk.span, p, u)
          [] tk.kind = "Ident" ->
                POk([kind |-> "Ident", name |-> tk.lexeme,
                     span |-> tk.span, uid |-> u], p, u + 1)
          [] tk.kind = "String" ->
                POk([kind |-> "String", value |-> tk.lexeme,
                     span |-> tk.span, uid |-> u], p, u + 1)
          [] tk.kind \in {"True", "False"} ->
                POk([kind |-> "Boolean", value |-> (tk.kind = "True"),
                     span |-> tk.span, uid |-> u], p, u + 1)
          [] OTHER -> PErr("SyntaxError", tk.span, p, u)

RECURSIVE expr(_, _, _)

\* What follows an argument or a parameter e whose items so far are items:
\* line breaks, then a comma and the next item (Continue carries the cursor
\* on its first token), or the closing parenthesis, or an error.
list_next(src, e, items) ==
    Bind(skip_next_newlines(src, e.pos), LAMBDA p1 :
    IF peek(src, p1).kind = "Comma"
    THEN [tag |-> "Continue", node |-> items,
          pos |-> consume(src, consume(src, p1)), uid |-> e.uid]
    ELSE IF peek(src, p1).kind = "RParen"
    THEN POk(items, consume(src, p1), e.uid)
    ELSE PErr("SyntaxError", peek(src, p1).span, p1, e.uid))

\* The loop of parse_args from the first token of an argument on: the node
\* of the result is the argument vector.
RECURSIVE parse_args_loop(_, _, _, _)
parse_args_loop(src, p, u, args) ==
    IF current(src, p).kind = "RParen" THEN POk(args, p, u)
    ELSE Bind(expr(src, p, u), LAMBDA e :
         IF e.tag # "Ok" THEN e
         ELSE Bind(list_next(src, e, Append(args, e.node)), LAMBDA n :
              IF n.tag = "Continue"
              THEN parse_args_loop(src, n.pos, n.uid, n.node)
              ELSE n))

parse_args(src, p, u) == parse_args_loop(src, consume(src, p), u, << >>)

expr_call(src, p, u) ==
    Bind(expr_literal(src, p, u), LAMBDA e :
    IF e.tag # "Ok" THEN e
    ELSE IF peek(src, e.pos).kind # "LParen" THEN e
    ELSE Bind(parse_args(src, skip_newlines(src, consume(src, e.pos)), e.uid),
              LAMBDA args :
         IF args.tag # "Ok" THEN args
         ELSE POk(ExprCall(args.uid, e.node, args.node,
                           <<e.node.span[1],
                             current(src, args.pos).span[2]>>),
                  args.pos, args.uid + 1)))

expr_binary(src, p, u) ==
    Bind(expr_call(src, p, u), LAMBDA e :
    IF e.tag # "Ok" THEN e
    ELSE IF Operator_binary(peek(src, e.pos).kind) = "None" THEN e
    ELSE Bind(expr(src,
                   skip_newlines(src, consume(src, consume(src, e.pos))),
                   e.uid), LAMBDA rhs :
         IF rhs.tag # "Ok" THEN rhs
         ELSE POk(ExprBinary(rhs.uid, e.node, rhs.node,
                             Operator_binary(peek(src, e.pos).kind),
                             <<e.node.span[1], rhs.node.span[2]>>),
                  rhs.pos, rhs.uid + 1)))

expr_assignment(src, p, u) ==
    Bind(expr_binary(src, p, u), LAMBDA e :
    IF e.tag # "Ok" THEN e
    ELSE IF Operator_assignment(peek(src, e.pos).kind) = "None" THEN e
    ELSE Bind(expr(src,
                   skip_newlines(src, consume(src, consume(src, e.pos))),
                   e.uid), LAMBDA value :
         IF value.tag # "Ok" THEN value
         ELSE POk(ExprBinary(value.uid, e.node, value.node,
                             Operator_assignment(peek(src, e.pos).kind),
                             <<e.node.span[1], value.node.span[2]>>),
                  value.pos, value.uid + 1)))

expr(src, p, u) == expr_assignment(src, p, u)

\* The loop of parse_params from the first token of a parameter on.
RECURSIVE parse_params_loop(_, _, _, _)
parse_params_loop(src, p, u, params) ==
    IF current(src, p).kind = "RParen" THEN POk(params, p, u)
    ELSE IF current(src, p).kind # "Ident"
         THEN PErr("SyntaxError", current(src, p).span, p, u)
    ELSE IF peek(src, p).kind # "Colon"
         THEN PErr("SyntaxError", peek(src, p).span, p, u)
    ELSE Bind(expr(src, consume(src, consume(src, p)), u), LAMBDA typ :
         IF typ.tag # "Ok" THEN typ
         ELSE Bind(list_next(src,
                       [typ EXCEPT !.uid = typ.uid + 1],
                       Append(params,
                              ExprParameter(typ.uid, current(src, p).lexeme,
                                            typ.node,
                                            <<current(src, p).span[1],
                                              typ.node.span[2]>>))),
                   LAMBDA n :
              IF n.tag = "Continue"
              THEN parse_params_loop(src, n.pos, n.uid, n.node)
              ELSE n))

parse_params(src, p, u) == parse_params_loop(src, p, u, << >>)

\* p1 is the cursor on the name, after assert_next(Ident).
stmt_variable(src, p, u) ==
    IF peek(src, p).kind # "Ident"
    THEN PErr("SyntaxError", peek(src, p).span, p, u)
    ELSE Bind(consume(src, p), LAMBDA p1 :
         Bind(IF peek(src, p1).kind = "Colon"
              THEN expr_literal(src, consume(src, consume(src, p1)), u)
              ELSE POk(NoType, p1, u), LAMBDA typ :
         IF typ.tag # "Ok" THEN typ
         ELSE IF peek(src, typ.pos).kind # "Equal"
         THEN PErr("SyntaxError", peek(src, typ.pos).span, typ.pos, typ.uid)
         ELSE Bind(expr(src,
                        consume(src,
                            skip_next_newlines(src, consume(src, typ.pos))),
                        typ.uid), LAMBDA value :
              IF value.tag # "Ok" THEN value
              ELSE POk(StmtVariable(value.uid, current(src, p1).lexeme,
                                    typ.node, value.node,
                                    <<current(src, p1).span[1],
                                      value.node.span[2]>>),
                       value.pos, value.uid + 1))))

\* Parser::stmt: only `let` starts a statement; anything else is
\* unimplemented!().
parser_stmt(src, p, u) ==
    Bind(skip_newlines(src, p), LAMBDA p0 :
    IF current(src, p0).kind # "Let" THEN PAbort
    ELSE Bind(stmt_variable(src, p0, u), LAMBDA v :
         IF v.tag # "Ok" THEN v
         ELSE IF peek(src, v.pos).kind \notin {"Semicolon", "Newline", "EOF"}
         THEN PErr("SyntaxError", current(src, v.pos).span, v.pos, v.uid)
         ELSE POk(v.node, consume(src, v.pos), v.uid)))

\* What parse_block returns and leaves behind: the statements, the cursor,
\* the next node id and the parser's error vector.
Block(stmts, p, u, errs) ==
    [tag |-> "Ok", stmts |-> stmts, pos |-> p, uid |-> u, errors |-> errs]

RECURSIVE parse_block_loop(_, _, _, _, _)
parse_block_loop(src, p, u, errs, stmts) ==
    IF at_end(src, p)
    THEN Block(stmts, p, u,
               Append(errs, Error("SyntaxError", current(src, p).span)))
    ELSE Bind(skip_newlines(src, p), LAMBDA p0 :
         IF current(src, p0).kind = "End" THEN Block(stmts, p0, u, errs)
         ELSE Bind(parser_stmt(src, p0, u), LAMBDA r :
              IF r.tag = "Panic" THEN PAbort
              ELSE IF r.tag = "Ok"
              THEN parse_block_loop(src, consume(src, r.pos), r.uid, errs,
                                    Append(stmts, r.node))
              ELSE parse_block_loop(src, consume(src, sync(src, r.pos)),
                                    r.uid, Append(errs, r.err), stmts)))

parse_block(src, p, u, errs) == parse_block_loop(src, p, u, errs, << >>)

\* Parser::stmt_function from the `function` keyword at p: an Ok result
\* also carries the error vector the body left.  p1 is the cursor on the
\* name, p3 the one after the line breaks that follow the parameters.
stmt_function(src, p, u, errs) ==
    IF peek(src, p).kind # "Ident"
    THEN PErr("SyntaxError", peek(src, p).span, p, u)
    ELSE Bind(consume(src, p), LAMBDA p1 :
    IF peek(src, p1).kind # "LParen"
    THEN PErr("SyntaxError", peek(src, p1).span, p1, u)
    ELSE Bind(parse_params(src, consume(src, consume(src, p1)), u),
              LAMBDA params :
    IF params.tag # "Ok" THEN params
    ELSE Bind(skip_next_newlines(src, params.pos), LAMBDA p3 :
         Bind(IF peek(src, p3).kind = "RArrow"
              THEN expr(src, consume(src, consume(src, p3)), params.uid)
              ELSE POk(NoType, p3, params.uid), LAMBDA ret :
    IF ret.tag # "Ok" THEN ret
    ELSE Bind(parse_block(src, skip_newlines(src, consume(src, ret.pos)),
                          ret.uid, errs), LAMBDA body :
    IF body.tag = "Panic" THEN PAbort
    ELSE [tag |-> "Ok",
          node |-> StmtFunction(body.uid, current(src, p1).lexeme,
                                ret.node, params.node, body.stmts,
                                <<current(src, p1).span[1],
                                  current(src, body.pos).span[2]>>),
          pos |-> body.pos, uid |-> body.uid + 1,
          errors |-> body.errors])))))

\* One iteration of the loop of Parser::parse_program: a function
\* declaration (anything else is unimplemented!()), then on to the next.
parse_program ==
    /\ variant = "parser"
    /\ ~halted /\ ~returned
    /\ ~at_end(source, pos)
    /\ IF current(source, pos).kind # "Function"
       THEN /\ halted' = TRUE
            /\ UNCHANGED <<ast, errors, pos, uid>>
       ELSE \E r \in {stmt_function(source, pos, uid, errors)} :
              IF r.tag = "Panic"
              THEN /\ halted' = TRUE
                   /\ UNCHANGED <<ast, errors, pos, uid>>
              ELSE /\ IF r.tag = "Ok"
                      THEN /\ ast' = Append(ast, r.node)
                           /\ errors' = r.errors
                           /\ pos' = skip_newlines(source,
                                                   consume(source, r.pos))
                      ELSE /\ ast' = ast
                           /\ errors' = Append(errors, r.err)
                           /\ pos' = skip_newlines(source,
                                       consume(source,
                                               sync_after_fn(source, r.pos)))
                   /\ uid' = r.uid
                   /\ halted' = halted
    /\ UNCHANGED <<variant, source, returned>>
    /\ UNCHANGED resolver_vars
    /\ UNCHANGED <<lexer_vars, compiler_vars>>

\* Parser::parse returns the statements and the drained error vector.
parse_program_return ==
    /\ variant = "parser"
    /\ ~halted /\ ~returned
    /\ at_end(source, pos)
    /\ returned' = TRUE
    /\ UNCHANGED <<variant, source, pos, uid, ast, errors, halted>>
    /\ UNCHANGED resolver_vars
    /\ UNCHANGED <<lexer_vars, compiler_vars>>

\* ------------------------------------------------------ the parser stage

\* The text of the tokens that have one spelling.
Lexeme(k) ==
    CASE k = "Let" -> <<"l", "e", "t">>
      [] k = "Mut" -> <<"m", "u", "t">>
      [] k = "Def" -> <<"d", "e", "f">>
      [] k = "Function" -> <<"f", "u", "n", "c", "t", "i", "o", "n">>
      [] k = "End" -> <<"e", "n", "d">>
      [] k = "True" -> <<"t", "r", "u", "e">>
      [] k = "False" -> <<"f", "a", "l", "s", "e">>
      [] k = "Minus" -> <<"-">>
      [] k = "Plus" -> <<"+">>
      [] k = "Equal" -> <<"=">>
      [] k = "PlusEqual" -> <<"+", "=">>
      [] k = "RArrow" -> <<"-", ">">>
      [] k = "Colon" -> <<":">>
      [] k = "Semicolon" -> <<";">>
      [] k = "Comma" -> <<",">>
      [] k = "LParen" -> <<"(">>
      [] k = "RParen" -> <<")">>
      [] k = "Newline" -> <<"\\", "n">>

Sym(k) == Tok(k, Lexeme(k))

Name(c) == Tok("Ident", <<c>>)

\* The literal tokens: a name, integers (plain, with an underscore, one
\* above i32::MAX), a float, a string, the booleans.
Literals ==
    {Name("a"), Tok("Integer", <<"1">>), Tok("Integer", <<"1", "_", "0">>),
     Tok("Integer", <<"2", "1", "4", "7", "4", "8", "3", "6", "4", "8">>),
     Tok("Float", <<"1", ".", "5">>), Tok("String", <<"s">>),
     Sym("True"), Sym("False")}

\* All token vectors of at most n tokens of A.
SeqsUpTo(A, n) == UNION {[1..k -> A] : k \in 0..n}

\* ps[1] os[1] ps[2] ... ps[k]: operands (token vectors) joined by operators.
RECURSIVE Interleave(_, _)
Interleave(ps, os) ==
    IF Len(ps) = 1 THEN ps[1]
    ELSE ps[1] \o <<os[1]>> \o Interleave(Tail(ps), Tail(os))

\* The chains of at most n operands of P joined by operators of O.
Chains(P, O, n) ==
    UNION {{Interleave(ps, os) : ps \in [1..k -> P], os \in [1..(k - 1) -> O]} :
           k \in 1..n}

\* What the ast parser is given.  Statements: an optional `name =`,
\* `let name =` or `mut name : type =`, a chain, an optional semicolon.
AstPrefixes ==
    {<< >>, <<Name("x"), Sym("Equal")>>,
     <<Sym("Let"), Name("x"), Sym("Equal")>>,
     <<Sym("Mut"), Name("x"), Sym("Colon"), Name("t"), Sym("Equal")>>}

AstStatements(P, n) ==
    {pre \o c \o suf :
        pre \in AstPrefixes,
        c \in Chains(P, {Sym("Minus"), Sym("Equal")}, n),
        suf \in {<< >>, <<Sym("Semicolon")>>}}

AstSources ==
    SeqsUpTo({Name("a"), Tok("Integer", <<"1">>), Sym("Minus"), Sym("Equal"),
              Sym("Semicolon"), Sym("Colon"), Sym("Let"), Sym("Def")},
             MaxTokens)
    \cup AstStatements({<<Name("a")>>, <<Tok("Integer", <<"1">>)>>}, MaxChain)
    \cup AstStatements({<<l>> : l \in Literals}, 1)
    \cup {s1 \o s2 : s1, s2 \in AstStatements({<<Name("a")>>}, 1)}

\* What the later parser is given.  Function headers: `function f (`, the
\* parameters, `)`, then nothing, a return type, a colon, a return type and
\* a colon, or a line break; and two headers that miss the name or the `(`.
ParserHeaders ==
    {<<Sym("Function"), Name("f"), Sym("LParen")>> \o ps \o <<Sym("RParen")>> \o r :
        ps \in {<< >>,
                <<Name("a"), Sym("Colon"), Name("t")>>,
                <<Name("a"), Sym("Colon"), Name("t"), Sym("Comma"),
                  Name("b"), Sym("Colon"), Name("t")>>,
                <<Name("a")>>},
        r \in {<< >>, <<Sym("RArrow"), Name("t")>>, <<Sym("Colon")>>,
               <<Sym("RArrow"), Name("t"), Sym("Colon")>>,
               <<Sym("Newline")>>}}
    \cup {<<Sym("Function"), Sym("LParen"), Sym("RParen")>>,
          <<Sym("Function"), Name("f"), Sym("RParen")>>}

\* Body statements `let x = <chain> <end of statement>`.
ParserStatements(P, n) ==
    {<<Sym("Let"), Name("x"), Sym("Equal")>> \o c \o <<t>> :
        c \in Chains(P, {Sym("Minus"), Sym("Plus"), Sym("Equal")}, n),
        t \in {Sym("Semicolon"), Sym("Newline")}}

\* Short body statements, well-formed and not: no end of statement, no
\* name, no value on its line, not a `let`.
ShortStatements ==
    ParserStatements({<<Tok("Integer", <<"1">>)>>}, 1)
    \cup {<<Sym("Let"), Name("x"), Sym("Equal"), Tok("Integer", <<"1">>)>>,
          <<Sym("Let"), Sym("Equal"), Tok("Integer", <<"1">>), Sym("Semicolon")>>,
          <<Sym("Let"), Name("x"), Sym("Equal"), Sym("Newline")>>,
          <<Name("x"), Sym("Semicolon")>>}

RECURSIVE Concat(_)
Concat(ss) == IF ss = << >> THEN << >> ELSE Head(ss) \o Concat(Tail(ss))

ParserFunctions ==
    \* one statement with a chain in a well-formed function
    {<<Sym("Function"), Name("f"), Sym("LParen"), Sym("RParen")>> \o st
        \o <<Sym("End")>> :
        st \in ParserStatements({<<Name("a")>>, <<Tok("Integer", <<"1">>)>>,
                                 <<Name("g"), Sym("LParen"), Name("a"),
                                   Sym("RParen")>>}, MaxChain)
               \cup ParserStatements(
                      {<<Name("g"), Sym("LParen"), Sym("RParen")>>,
                       <<Name("g"), Sym("LParen"), Name("a"), Sym("Comma"),
                         Name("b"), Sym("Minus"), Name("c"), Sym("RParen")>>,
                       <<Name("g"), Sym("LParen"), Name("a"), Sym("Comma"),
                         Sym("RParen")>>,
                       <<Name("g"), Sym("LParen"), Name("a"), Name("b")>>,
                       <<Sym("Newline"), Name("b")>>} \cup
                      {<<l>> : l \in Literals}, 2)}
    \cup
    \* every header with every short body, closed or not
    {h \o Concat(b) \o t :
        h \in ParserHeaders,
        b \in SeqsUpTo(ShortStatements, MaxBody),
        t \in {<< >>, <<Sym("End")>>, <<Sym("Newline")>>}}

\* The header the parser accepts with no parameters and no return type.
PlainHeader == <<Sym("Function"), Name("f"), Sym("LParen"), Sym("RParen")>>

\* Headers that fail: no name, no `(`, a parameter with no type, a return
\* arrow with a colon where the type should be.
BadHeaders ==
    {<<Sym("Function"), Sym("LParen"), Sym("RParen")>>,
     <<Sym("Function"), Name("f"), Sym("RParen")>>,
     <<Sym("Function"), Name("f"), Sym("LParen"), Name("a"), Sym("RParen")>>,
     <<Sym("Function"), Name("f"), Sym("LParen"), Sym("RParen"),
       Sym("RArrow"), Sym("Colon")>>}

ParserSources ==
    SeqsUpTo({Sym("Function"), Name("f"), Sym("LParen"), Sym("RParen"),
              Sym("Let"), Sym("End"), Sym("Newline"), Sym("Colon")},
             MaxTokens)
    \cup ParserFunctions
    \cup {h \o b \o <<Sym("End")>> \o nl \o f2 :
            h \in {PlainHeader} \cup BadHeaders,
            b \in ShortStatements \cup {<< >>},
            nl \in {<< >>, <<Sym("Newline")>>},
            f2 \in {h2 \o b2 \o <<Sym("End")>> :
                      h2 \in {PlainHeader,
                              <<Sym("Function"), Sym("LParen"), Sym("RParen")>>},
                      b2 \in ShortStatements \cup {<< >>}}}

\* Both parsers start at the first token of a vector that the lexer has
\* closed with the end-of-stream token.
InitParser ==
    /\ variant \in {"ast", "parser"}
    /\ source \in {Spanned(t \o <<Token_eof>>) :
                     t \in IF variant = "ast" THEN AstSources
                           ELSE ParserSources}
    /\ pos = 0
    /\ uid = 0
    /\ ast = << >>
    /\ errors = << >>
    /\ halted = FALSE
    /\ returned = FALSE
    /\ scopes = <<EmptyScope>>
    /\ curr_scope = 0
    /\ stmt = NoStmt
    /\ result = Ok("Nil")
    /\ idx = 0
    /\ NoLexer
    /\ NoCompiler

NextParser ==
    \/ Parser_parse
    \/ Parser_parse_return
    \/ parse_program
    \/ parse_program_return

SpecParser == InitParser /\ [][NextParser]_vars

\* ------------------------------------------------------- claims: parsers

\* Every expression node of an expression tree.
RECURSIVE Subexprs(_)
Subexprs(e) ==
    {e} \cup
    CASE e.kind = "Binary" -> Subexprs(e.lhs) \cup Subexprs(e.rhs)
      [] e.kind = "Assignment" -> Subexprs(e.assignee) \cup Subexprs(e.value)
      [] e.kind = "Call" ->
            Subexprs(e.callee)
            \cup UNION {Subexprs(e.args[i]) : i \in 1..Len(e.args)}
      [] e.kind = "Parameter" -> Subexprs(e.ty)
      [] OTHER -> {}

\* Every expression node of a statement the parsers return.
RECURSIVE StmtExprs(_)
StmtExprs(s) ==
    CASE s.kind \in {"VariableDecl", "Variable"} ->
            Subexprs(s.value)
            \cup (IF s.typ = NoType THEN {} ELSE Subexprs(s.typ))
      [] s.kind = "Expression" -> Subexprs(s.expr)
      [] s.kind = "Function" ->
            UNION {Subexprs(s.params[i]) : i \in 1..Len(s.params)}
            \cup (IF s.ret = NoType THEN {} ELSE Subexprs(s.ret))
            \cup UNION {StmtExprs(s.body[i]) : i \in 1..Len(s.body)}

BinaryNodes ==
    {e \in UNION {StmtExprs(ast[i]) : i \in 1..Len(ast)} : e.kind = "Binary"}

PrimaryKinds == {"Integer", "Float", "String", "Boolean", "Ident"}

\* The node is the primary expression spelled by the token.
IsTokenOf(node, tk) ==
    /\ node.span = tk.span
    /\ node.kind = IF tk.kind \in {"True", "False"} THEN "Boolean" ELSE tk.kind
    /\ node.kind = "Ident" => node.name = tk.lexeme

\* The operator a token stands for in the running parser, "None" if none.
BinaryOperatorOf(k) ==
    IF variant = "ast" THEN expect_binary(k) ELSE Operator_binary(k)

AssignOperatorOf(k) ==
    IF variant = "ast" THEN expect_assign(k) ELSE Operator_assignment(k)

\* The token at a 0-based offset.
At(offset) == source[offset + 1]

\* C8: every Binary node a parser returns has a primary expression (a
\* literal, an identifier or a call) as its lhs, never a Binary node; the
\* lhs is the first operand of the text the node covers, the operator is the
\* token after it, the rhs is everything from the next operand up to the end
\* of the chain (no operator follows the node): a chain e1 op1 e2 op2 ... en
\* comes out fully right-nested, `a - b - c` as Binary(a, -, Binary(b, -, c)).
C8_RightNested ==
    \A e \in BinaryNodes :
        /\ e.lhs.kind \in PrimaryKinds \cup {"Call"}
        /\ e.lhs.kind # "Call" => IsTokenOf(e.lhs, At(e.span[1]))
        /\ e.op # "None"
        /\ e.op \in {BinaryOperatorOf(At(e.lhs.span[2]).kind),
                     AssignOperatorOf(At(e.lhs.span[2]).kind)}
        /\ variant = "ast" => e.op = "Minus"
        /\ e.rhs.span[1] > e.lhs.span[2]
        /\ \A i \in (e.lhs.span[2] + 1)..(e.rhs.span[1] - 1) :
               At(i).kind = "Newline"
        /\ e.span = <<e.lhs.span[1], e.rhs.span[2]>>
        /\ BinaryOperatorOf(At(e.span[2]).kind) = "None"
        /\ AssignOperatorOf(At(e.span[2]).kind) = "None"

\* `x = a - 1 - a ;` was parsed: the value is Binary(a, -, Binary(1, -, a)).
C8_Witness ==
    /\ variant = "ast"
    /\ returned
    /\ Len(source) = 9
    /\ errors = << >>
    /\ Len(ast) = 1
    /\ ast[1].kind = "Expression"
    /\ ast[1].expr.value.kind = "Binary"
    /\ ast[1].expr.value.span = <<2, 7>>
    /\ ast[1].expr.value.lhs = literal(At(2))
    /\ ast[1].expr.value.lhs.kind = "Ident"
    /\ ast[1].expr.value.rhs.kind = "Binary"
    /\ ast[1].expr.value.rhs.lhs = literal(At(4))
    /\ ast[1].expr.value.rhs.lhs.kind = "Integer"
    /\ ast[1].expr.value.rhs.rhs = literal(At(6))

\* C9: a parser never aborts: whatever the token vector, the run is not
\* ended by a panic.
C9_NeverAborts == variant \in {"ast", "parser"} => ~halted

\* C10: in the ast parser, a statement that does not start with `let` or
\* `mut` adds an Expression statement iff the expression parsed at its first
\* token has an Assignment at its root; for any other root the SyntaxError
\* on the statement's first token is recorded and no statement is added.
C10_ExpressionStatements ==
    [][(/\ variant = "ast"
        /\ current(source, pos).kind \notin {"Let", "Mut", "EOF"})
       => LET e == parse_expr(source, pos)
              root == IF e.tag = "Ok" THEN e.node.kind ELSE "-"
          IN  /\ root = "Assignment" <=> ast' # ast
              /\ root = "Assignment" => ast' = Append(ast, Expression(e.node))
              /\ ast' # ast =>
                    /\ Len(ast') = Len(ast) + 1
                    /\ ast'[Len(ast')].kind = "Expression"
                    /\ ast'[Len(ast')].expr.kind = "Assignment"
                    /\ ast'[Len(ast')].expr.span[1] = pos
              /\ root \in PrimaryKinds \cup {"Binary"} =>
                    /\ Len(errors') > Len(errors)
                    /\ SubSeq(errors', 1, Len(errors) + 1)
                         = Append(errors,
                                  Error("SyntaxError",
                                        current(source, pos).span))
      ]_vars

\* `a ; x = a ;` was parsed: the lone identifier left the SyntaxError on its
\* token and no statement, the assignment is the only statement.
C10_Witness ==
    /\ variant = "ast"
    /\ returned
    /\ Len(source) = 7
    /\ At(0).kind = "Ident" /\ At(1).kind = "Semicolon"
    /\ errors = <<Error("SyntaxError", <<0, 1>>)>>
    /\ Len(ast) = 1
    /\ ast[1].kind = "Expression"
    /\ ast[1].expr.kind = "Assignment"
    /\ ast[1].expr.span = <<2, 5>>

\* --------------------------------------- claims: recovery in the later parser

\* The body statements that parse, and those that fail before a `;` or a
\* line break.
WellFormedLets == ParserStatements({<<Tok("Integer", <<"1">>)>>}, 1)

FailingLets ==
    {<<Sym("Let"), Sym("Equal"), Tok("Integer", <<"1">>), Sym("Semicolon")>>,
     <<Sym("Let"), Name("x"), Sym("Equal"), Sym("Newline")>>}

\* The spans (name to value) of the well-formed statements of the body b
\* whose first token is at offset o.
RECURSIVE LetSpans(_, _)
LetSpans(b, o) ==
    IF b = << >> THEN << >>
    ELSE (IF Head(b) \in WellFormedLets THEN << <<o + 1, o + 4>> >> ELSE << >>)
         \o LetSpans(Tail(b), o + Len(Head(b)))

\* The tokens toks are in the source from offset o on.
SourceHas(toks, o) ==
    /\ Len(source) >= o + Len(toks)
    /\ \A i \in 1..Len(toks) :
          /\ source[o + i].kind = toks[i].kind
          /\ source[o + i].lexeme = toks[i].lexeme

BodySpans(fn) == [i \in 1..Len(fn.body) |-> fn.body[i].span]

\* C11: in a body `function f ( ) s1 .. sn end` whose statements are
\* well-formed or fail before a `;` or a line break, each failing statement
\* leaves exactly one diagnostic and the Function's body is exactly the
\* well-formed statements, in source order.
C11_BodyRecovery ==
    (variant = "parser" /\ returned) =>
        \A b \in SeqsUpTo(WellFormedLets \cup FailingLets, MaxBody) :
            (/\ \E i \in 1..Len(b) : b[i] \in FailingLets
             /\ source = Spanned(PlainHeader \o Concat(b)
                                  \o <<Sym("End"), Token_eof>>))
            => /\ Len(ast) = 1
               /\ ast[1].kind = "Function"
               /\ BodySpans(ast[1]) = LetSpans(b, Len(PlainHeader))
               /\ Len(errors) = Cardinality({i \in 1..Len(b) :
                                                b[i] \in FailingLets})

C13_MissingEnd ==
    (variant = "parser" /\ (returned \/ halted)) =>
        \A b \in SeqsUpTo(WellFormedLets, MaxBody),
           nl \in {<< >>, <<Sym("Newline")>>} :
            source = Spanned(PlainHeader \o Concat(b) \o nl \o <<Token_eof>>)
            => /\ ~halted
               /\ Len(ast) = 1
               /\ ast[1].kind = "Function"
               /\ BodySpans(ast[1]) = LetSpans(b, Len(PlainHeader))
               /\ errors = <<Error("SyntaxError",
                                   source[Len(source)].span)>>

\* C14: `function f ( <typed params> ) [-> t] : <lets> end` parses, without
\* aborting and without a diagnostic, into one Function named f with the
\* parameters in order, the return type if any and the body in order.
C14_ColonBody ==
    (variant = "parser" /\ (returned \/ halted)) =>
        \A ps \in SeqsUpTo({"a", "b"}, 2),
           r \in {<< >>, <<Sym("RArrow"), Name("t")>>},
           b \in SeqsUpTo(WellFormedLets, MaxBody) :
            LET params == IF ps = << >> THEN << >>
                          ELSE Interleave(
                                 [i \in 1..Len(ps) |->
                                    <<Name(ps[i]), Sym("Colon"), Name("t")>>],
                                 [i \in 1..(Len(ps) - 1) |-> Sym("Comma")])
                head == <<Sym("Function"), Name("f"), Sym("LParen")>>
                          \o params \o <<Sym("RParen")>> \o r
                          \o <<Sym("Colon")>>
            IN  source = Spanned(head \o Concat(b)
                                  \o <<Sym("End"), Token_eof>>)
                => /\ ~halted
                   /\ errors = << >>
                   /\ Len(ast) = 1
                   /\ ast[1].kind = "Function"
                   /\ ast[1].name = <<"f">>
                   /\ [i \in 1..Len(ast[1].params) |->
                         ast[1].params[i].name] = [i \in 1..Len(ps) |-> <<ps[i]>>]
                   /\ (r = << >>) <=> (ast[1].ret = NoType)
                   /\ BodySpans(ast[1]) = LetSpans(b, Len(head))

AssignmentOperators ==
    {"AssignEqual", "Eq", "AddEq", "SubEq", "MulEq", "DivEq", "ExpEq",
     "FloorEq"}

\* C25: among the expression nodes a parser has returned, no Binary node
\* carries an assignment operator, and an Assignment node carries the
\* operator of the token after its assignee, the value being what follows.
C25_AssignmentNodes ==
    variant \in {"ast", "parser"} =>
       \A e \in UNION {StmtExprs(ast[i]) : i \in 1..Len(ast)} :
          /\ e.kind = "Binary" => e.op \notin AssignmentOperators
          /\ e.kind = "Assignment" =>
                /\ e.op \in AssignmentOperators
                /\ e.op = AssignOperatorOf(At(e.assignee.span[2]).kind)
                /\ e.value.span[1] = e.assignee.span[2] + 1

\* ------------------------------ lexer/lexer.rs and compiler/lexer.rs: Lexer

\* None of Option<char>
NoChar == "None"

\* Lexer::current, Lexer::peek, Lexer::advance: txt is the source buffer,
\* p the 0-based Lexer.pos.
Lexer_current(txt, p) == IF Len(txt) > p THEN txt[p + 1] ELSE NoChar

Lexer_peek(txt, p) == IF Len(txt) > p + 1 THEN txt[p + 2] ELSE NoChar

\* advance() that stays on the last byte.
Lexer_advance_short(txt, p) == IF Len(txt) > p + 1 THEN p + 1 ELSE p

Lexer_advance(txt, p) == IF Len(txt) > p THEN p + 1 ELSE p

\* Lexer::expect: whether the next character is c; the caller moves on
\* with Lexer_advance when it is.
Lexer_expect(txt, p, c) == Lexer_peek(txt, p) = c

\* 'a'..='z' | 'A'..='Z', char::is_ascii_digit and char::is_alphanumeric
\* (of an ASCII byte).
Letters ==
    {"a", "b", "c", "d", "e", "f", "g", "h", "i", "j", "k", "l", "m",
     "n", "o", "p", "q", "r", "s", "t", "u", "v", "w", "x", "y", "z"}
    \cup {"A", "B", "C", "D", "E", "F", "G", "H", "I", "J", "K", "L", "M",
          "N", "O", "P", "Q", "R", "S", "T", "U", "V", "W", "X", "Y", "Z"}

\* A test every character passes.
is_any_char(c) == c # NoChar

is_ascii_digit(c) == IsDigit(c)

is_alphanumeric(c) == c \in Letters \/ IsDigit(c)

\* TokenKind::from_lexeme of lexer/token.rs and of compiler/lexer.rs
Keywords ==
    {<<<<"l", "e", "t">>, "Let">>,
     <<<<"f", "u", "n", "c", "t", "i", "o", "n">>, "Function">>,
     <<<<"r", "e", "t", "u", "r", "n">>, "Return">>,
     <<<<"t", "r", "u", "e">>, "True">>,
     <<<<"f", "a", "l", "s", "e">>, "False">>, <<<<"i", "f">>, "If">>,
     <<<<"e", "l", "s", "e">>, "Else">>, <<<<"f", "o", "r">>, "For">>,
     <<<<"w", "h", "i", "l", "e">>, "While">>,
     <<<<"b", "r", "e", "a", "k">>, "Break">>,
     <<<<"c", "l", "a", "s", "s">>, "Class">>,
     <<<<"e", "n", "u", "m">>, "Enum">>, <<<<"e", "n", "d">>, "End">>,
     <<<<"i", "s">>, "Is">>, <<<<"n", "o", "t">>, "Not">>,
     <<<<"w", "h", "e", "r", "e">>, "Where">>,
     <<<<"i", "m", "p", "o", "r", "t">>, "Import">>,
     <<<<"f", "r", "o", "m">>, "From">>, <<<<"a", "s">>, "As">>,
     <<<<"i", "n", "l", "i", "n", "e">>, "Inline">>,
     <<<<"p", "u", "b">>, "Pub">>, <<<<"i", "n">>, "In">>}

CompilerKeywords ==
    {<<<<"d", "e", "f">>, "Def">>,
     <<<<"r", "e", "t", "u", "r", "n">>, "Return">>,
     <<<<"l", "e", "t">>, "Let">>, <<<<"m", "u", "t">>, "Mut">>,
     <<<<"t", "r", "u", "e">>, "True">>,
     <<<<"f", "a", "l", "s", "e">>, "False">>}

from_lexeme(table, lexeme) ==
    IF \E kw \in table : kw[1] = lexeme
    THEN (CHOOSE kw \in table : kw[1] = lexeme)[2]
    ELSE "Ident"

\* What one iteration of the scan loop does before its closing advance():
\* where it leaves the lexer, the tokens and the diagnostics it pushed.
LexOut(p, toks, errs) ==
    [tag |-> "Ok", pos |-> p, tokens |-> toks, errors |-> errs]

\* tokens.push of a token whose span is start..self.pos, the lexer being
\* at p (for the one-character tokens, start..start with the lexer at
\* start).
Emit(k, start, p, lexeme) ==
    LexOut(p, <<Token(k, <<start, p>>, lexeme)>>, << >>)

\* The '"' arm: the lexer is at p inside a literal opened at start; a
\* backslash is unimplemented!() / panic!().
RECURSIVE scan_string(_, _, _, _)
scan_string(txt, p, lexeme, start) ==
    LET next_ch == Lexer_peek(txt, p)
    IN  IF next_ch = NoChar
        THEN LexOut(p, <<Token("String", <<start, p>>, lexeme)>>,
                    <<Error("SyntaxError", <<start, p>>)>>)
        ELSE IF next_ch = "\\" THEN PAbort
        ELSE IF next_ch = "\""
        THEN Emit("String", start, Lexer_advance(txt, p), lexeme)
        ELSE scan_string(txt, Lexer_advance(txt, p),
                         Append(lexeme, next_ch), start)

\* The identifier arm.
RECURSIVE scan_ident(_, _, _, _, _)
scan_ident(table, txt, p, lexeme, start) ==
    LET next_ch == Lexer_peek(txt, p)
    IN  IF next_ch = NoChar
           \/ (~is_alphanumeric(next_ch) /\ next_ch # "_")
        THEN Emit(from_lexeme(table, lexeme), start, p, lexeme)
        ELSE scan_ident(table, txt, Lexer_advance(txt, p),
                        Append(lexeme, next_ch), start)

\* The number arm: a dot is taken when no dot was taken before and a
\* digit, '_' or '.' follows it; otherwise the lexer steps back onto the
\* last character of the number.
RECURSIVE scan_number(_, _, _, _, _)
scan_number(txt, p, lexeme, kind, start) ==
    LET next_ch == Lexer_peek(txt, p)
        after_decimal == Lexer_peek(txt, Lexer_advance(txt, p))
    IN  IF next_ch = NoChar
           \/ (~is_ascii_digit(next_ch) /\ next_ch # "_" /\ next_ch # ".")
        THEN Emit(kind, start, p, lexeme)
        ELSE IF next_ch = "."
        THEN IF kind = "Float" THEN Emit(kind, start, p, lexeme)
             ELSE IF after_decimal = NoChar
                     \/ (/\ ~is_ascii_digit(after_decimal)
                         /\ after_decimal # "_"
                         /\ after_decimal # ".")
             THEN Emit(kind, start, Lexer_advance(txt, p) - 1, lexeme)
             ELSE scan_number(txt, Lexer_advance(txt, p),
                              Append(lexeme, "."), "Float", start)
        ELSE scan_number(txt, Lexer_advance(txt, p),
                         Append(lexeme, next_ch), kind, start)

\* The '#' arm: up to and onto the line break.
RECURSIVE scan_comment(_, _)
scan_comment(txt, p) ==
    LET next_ch == Lexer_peek(txt, p)
    IN  IF next_ch = NoChar THEN p
        ELSE IF next_ch = "\n" THEN Lexer_advance(txt, p)
        ELSE scan_comment(txt, Lexer_advance(txt, p))

\* An operator arm `c => if self.expect(c2) { k2 } else { k1 }`.
OneOrTwo(txt, p, c, c2, k2, k1) ==
    IF Lexer_expect(txt, p, c2)
    THEN Emit(k2, p, Lexer_advance(txt, p), <<c, c2>>)
    ELSE Emit(k1, p, p, <<c>>)

\* The arms of '*' and '/': c c =, c c, c =, c.
UpToThree(txt, p, c, k3, k2, ke, k1) ==
    IF Lexer_expect(txt, p, c)
    THEN IF Lexer_expect(txt, Lexer_advance(txt, p), "=")
         THEN Emit(k3, p, Lexer_advance(txt, Lexer_advance(txt, p)),
                   <<c, c, "=">>)
         ELSE Emit(k2, p, Lexer_advance(txt, p), <<c, c>>)
    ELSE IF Lexer_expect(txt, p, "=")
    THEN Emit(ke, p, Lexer_advance(txt, p), <<c, "=">>)
    ELSE Emit(k1, p, p, <<c>>)

\* The arms that push a one-character token with the span start..start.
LexerSingles ==
    {<<"\n", "Newline", <<"\\", "n">> >>,
     <<"(", "LParen", <<"(">> >>, <<")", "RParen", <<")">> >>,
     <<"[", "LBrac", <<"[">> >>, <<"]", "RBrac", <<"]">> >>,
     <<"{", "LCurl", <<"{">> >>, <<"}", "RCurl", <<"}">> >>,
     <<"%", "Modulo", <<"%">> >>, <<":", "Colon", <<":">> >>,
     <<";", "Semicolon", <<";">> >>, <<",", "Comma", <<",">> >>,
     <<"$", "Sigil", <<"$">> >>}

CompilerLexerSingles ==
    {<<"(", "LParen", <<"(">> >>, <<")", "RParen", <<")">> >>,
     <<"[", "LBrac", <<"[">> >>, <<"]", "RBrac", <<"]">> >>,
     <<"{", "LCurl", <<"{">> >>, <<"}", "RCurl", <<"}">> >>,
     <<"=", "Equal", <<"=">> >>, <<"+", "Plus", <<"+">> >>,
     <<":", "Colon", <<":">> >>, <<";", "Semicolon", <<";">> >>,
     <<",", "Comma", <<",">> >>, <<".", "Dot", <<".">> >>}

Single(table, ch, p) ==
    LET arm == CHOOSE a \in table : a[1] = ch
    IN  Emit(arm[2], p, p, arm[3])

\* The match of lexer::Lexer::lex on the character ch at p.
Lexer_match(txt, p) ==
    LET ch == Lexer_current(txt, p)
    IN  CASE ch \in {" ", "\t", "\r"} -> LexOut(p, << >>, << >>)
          [] \E a \in LexerSingles : a[1] = ch -> Single(LexerSingles, ch, p)
          [] ch = "." ->
                IF Lexer_expect(txt, p, ".")
                THEN IF Lexer_expect(txt, Lexer_advance(txt, p), ".")
                     THEN Emit("Ellipsis", p,
                               Lexer_advance(txt, Lexer_advance(txt, p)),
                               <<".", ".", ".">>)
                     ELSE Emit("Dot", p, Lexer_advance(txt, p) - 1, <<".">>)
                ELSE Emit("Dot", p, p, <<".">>)
          [] ch = "+" ->
                IF Lexer_expect(txt, p, "+")
                THEN Emit("PlusPlus", p, Lexer_advance(txt, p), <<"+", "+">>)
                ELSE OneOrTwo(txt, p, "+", "=", "PlusEqual", "Plus")
          [] ch = "-" ->
                IF Lexer_expect(txt, p, "-")
                THEN Emit("MinusMinus", p, Lexer_advance(txt, p),
                          <<"-", "-">>)
                ELSE IF Lexer_expect(txt, p, "=")
                THEN Emit("MinusEqual", p, Lexer_advance(txt, p),
                          <<"-", "=">>)
                ELSE OneOrTwo(txt, p, "-", ">", "RArrow", "Minus")
          [] ch = "*" ->
                UpToThree(txt, p, "*", "StarStarEqual", "StarStar",
                          "StarEqual", "Star")
          [] ch = "/" ->
                UpToThree(txt, p, "/", "SlashSlashEqual", "SlashSlash",
                          "SlashEqual", "Slash")
          [] ch = "<" -> OneOrTwo(txt, p, "<", "=", "LessEqual", "Less")
          [] ch = ">" -> OneOrTwo(txt, p, ">", "=", "MoreEqual", "More")
          [] ch = "=" -> OneOrTwo(txt, p, "=", "=", "EqualEqual", "Equal")
          [] ch = "!" -> OneOrTwo(txt, p, "!", "=", "BangEqual", "Bang")
          [] ch = "|" -> OneOrTwo(txt, p, "|", "|", "PipePipe", "Pipe")
          [] ch = "&" ->
                IF Lexer_expect(txt, p, "&")
                THEN Emit("Amprsnd", p, Lexer_advance(txt, p), <<"&", "&">>)
                ELSE Emit("AmprsndAmprsnd", p, p, <<"&">>)
          [] ch = "\"" -> scan_string(txt, p, << >>, p)
          [] ch \in Letters \cup {"_"} ->
                scan_ident(Keywords, txt, p, <<ch>>, p)
          [] is_ascii_digit(ch) -> scan_number(txt, p, <<ch>>, "Integer", p)
          [] ch = "#" -> LexOut(scan_comment(txt, p), << >>, << >>)
          [] OTHER ->
                LexOut(p, << >>, <<Error("IllegalCharacter", <<p, p>>)>>)

\* The match of compiler::lexer::Lexer::lex.
CompilerLexer_match(txt, p) ==
    LET ch == Lexer_current(txt, p)
    IN  CASE ch \in {" ", "\t", "\r", "\n"} -> LexOut(p, << >>, << >>)
          [] \E a \in CompilerLexerSingles : a[1] = ch ->
                Single(CompilerLexerSingles, ch, p)
          [] ch = "-" -> OneOrTwo(txt, p, "-", ">", "RArrow", "Minus")
          [] ch = "\"" -> scan_string(txt, p, << >>, p)
          [] ch \in Letters \cup {"_"} ->
                scan_ident(CompilerKeywords, txt, p, <<ch>>, p)
          [] is_ascii_digit(ch) -> scan_number(txt, p, <<ch>>, "Integer", p)
          [] OTHER ->
                LexOut(p, << >>, <<Error("IllegalCharacter", <<p, p>>)>>)

\* One iteration of `while let Some(ch) = self.current()`: the match, then
\* self.advance().
Lexer_lex ==
    /\ variant \in {"lexer", "compiler_lexer"}
    /\ ~halted /\ ~returned
    /\ Lexer_current(text, pos) # NoChar
    /\ \E r \in {IF variant = "lexer" THEN Lexer_match(text, pos)
                 ELSE CompilerLexer_match(text, pos)} :
          IF r.tag = "Panic"
          THEN /\ halted' = TRUE
               /\ UNCHANGED <<pos, tokens, errors>>
          ELSE /\ pos' = Lexer_advance(text, r.pos)
               /\ tokens' = tokens \o r.tokens
               /\ errors' = errors \o r.errors
               /\ halted' = halted
    /\ UNCHANGED <<variant, text, returned, source, uid, ast>>
    /\ UNCHANGED <<resolver_vars, compiler_vars>>

\* The end of the buffer: the EOF token closes the vector and lex returns
\* it with the diagnostics.
Lexer_lex_return ==
    /\ variant \in {"lexer", "compiler_lexer"}
    /\ ~halted /\ ~returned
    /\ Lexer_current(text, pos) = NoChar
    /\ tokens' = Append(tokens, Token("EOF", <<pos, pos>>, Token_eof.lexeme))
    /\ returned' = TRUE
    /\ UNCHANGED <<variant, text, pos, errors, halted, source, uid, ast>>
    /\ UNCHANGED <<resolver_vars, compiler_vars>>

\* ------------------------------------------------------- the lexer stage

MaxText == 4      \* bytes of a source buffer

\* What the lexers are given: every buffer of at most MaxText bytes over a
\* letter, a digit, the dot, the quote, the comment sign, the line break,
\* an arrow and a character no rule takes; short buffers over the quote and
\* the backslash, and over the operator characters; the number buffers,
\* one byte longer, and `1.2.3` and `1.foo`.
Texts ==
    SeqsUpTo({"a", "1", ".", "\"", "#", "\n", "-", ">", "@"}, MaxText)
    \cup SeqsUpTo({"\"", "\\", "a"}, MaxText - 1)
    \cup SeqsUpTo({"*", "/", "=", "+", "|", "&", "<", "!", "_"}, MaxText - 1)
    \cup SeqsUpTo({"1", ".", "_"}, MaxText + 1)
    \cup {<<"1", ".", "2", ".", "3">>, <<"1", ".", "f", "o", "o">>}

InitLexer ==
    /\ variant \in {"lexer", "compiler_lexer"}
    /\ text \in Texts
    /\ tokens = << >>
    /\ pos = 0
    /\ errors = << >>
    /\ halted = FALSE
    /\ returned = FALSE
    /\ source = << >>
    /\ uid = 0
    /\ ast = << >>
    /\ scopes = <<EmptyScope>>
    /\ curr_scope = 0
    /\ stmt = NoStmt
    /\ result = Ok("Nil")
    /\ idx = 0
    /\ NoCompiler

NextLexer ==
    \/ Lexer_lex
    \/ Lexer_lex_return

SpecLexer == InitLexer /\ [][NextLexer]_vars

\* ---------------------------------------------------------- claims: lexer

\* The characters that start a rule of each lexer; every other one is
\* illegal where a token could start.
LexerAlphabet ==
    {" ", "\t", "\r", "\n", "(", ")", "[", "]", "{", "}", ".", "+", "-", "*",
     "/", "<", ">", "=", "!", "|", "&", "%", ":", ";", ",", "$", "\"", "#",
     "_"} \cup Letters \cup {Digits[i] : i \in 1..10}

CompilerLexerAlphabet ==
    {" ", "\t", "\r", "\n", "(", ")", "[", "]", "{", "}", "=", "-", "+", ":",
     ";", ",", ".", "\"", "_"} \cup Letters \cup {Digits[i] : i \in 1..10}

\* The bytes of the string literal opened by the quote at offset p: up to
\* the next quote or the end of the buffer.
StringBody(txt, p) ==
    LET quotes == {j \in (p + 2)..Len(txt) : txt[j] = "\""}
        last == IF quotes = {} THEN Len(txt)
                ELSE (CHOOSE j \in quotes : \A k \in quotes : j <= k) - 1
    IN  SubSeq(txt, p + 2, last)

Unterminated(txt, p) == \A j \in (p + 2)..Len(txt) : txt[j] # "\""

HasEscape(txt, p) ==
    \E j \in 1..Len(StringBody(txt, p)) : StringBody(txt, p)[j] = "\\"

IsPrefix(a, b) == Len(a) <= Len(b) /\ SubSeq(b, 1, Len(a)) = a

\* C15: a step of either lexer that does not open a string literal holding
\* a backslash never aborts; an iteration of the scan loop leaves the lexer
\* at a strictly greater position inside the buffer, keeps the tokens and
\* diagnostics it had, and adds no end-of-stream token; an illegal character
\* at the start of the iteration adds exactly one IllegalCharacter and the
\* scan goes on with the next byte, a string with no closing quote adds
\* exactly one SyntaxError and ends at the end of the buffer, anything else
\* adds no diagnostic; at the end of the buffer lex returns with the
\* end-of-stream token as the last and only such token.
C15_LexTotal ==
    [][(/\ variant \in {"lexer", "compiler_lexer"}
        /\ ~halted /\ ~returned)
       => LET ch == Lexer_current(text, pos)
              legal == IF variant = "lexer" THEN LexerAlphabet
                       ELSE CompilerLexerAlphabet
          IN  IF ch = NoChar
              THEN /\ returned' /\ ~halted'
                   /\ errors' = errors
                   /\ Len(tokens') = Len(tokens) + 1
                   /\ \A i \in 1..Len(tokens') :
                         (tokens'[i].kind = "EOF") <=> (i = Len(tokens'))
              ELSE IF ch = "\"" /\ HasEscape(text, pos) THEN TRUE
              ELSE /\ ~halted' /\ ~returned'
                   /\ pos' > pos /\ pos' <= Len(text)
                   /\ IsPrefix(tokens, tokens')
                   /\ \A i \in 1..Len(tokens') : tokens'[i].kind # "EOF"
                   /\ IF ch \notin legal
                      THEN /\ Len(errors') = Len(errors) + 1
                           /\ IsPrefix(errors, errors')
                           /\ errors'[Len(errors')].kind = "IllegalCharacter"
                           /\ tokens' = tokens
                           /\ pos' = pos + 1
                      ELSE IF ch = "\"" /\ Unterminated(text, pos)
                      THEN /\ Len(errors') = Len(errors) + 1
                           /\ IsPrefix(errors, errors')
                           /\ errors'[Len(errors')].kind = "SyntaxError"
                           /\ pos' = Len(text)
                      ELSE errors' = errors
      ]_vars

\* `1.@a` was lexed: the number stepped back off the dot, the illegal
\* character left its diagnostic, the identifier after it was still produced.
C15_Witness ==
    /\ variant = "lexer"
    /\ returned
    /\ text = <<"1", ".", "@", "a">>
    /\ [i \in 1..Len(tokens) |-> tokens[i].kind]
         = <<"Integer", "Dot", "Ident", "EOF">>
    /\ errors = <<Error("IllegalCharacter", <<2, 2>>)>>

\* The longest run of digits and underscores of txt from the 1-based
\* index i on.
RECURSIVE DigitRun(_, _)
DigitRun(txt, i) ==
    IF i <= Len(txt) /\ (IsDigit(txt[i]) \/ txt[i] = "_")
    THEN <<txt[i]>> \o DigitRun(txt, i + 1)
    ELSE << >>

\* The dot at the 1-based index i belongs to the number before it: a
\* digit, an underscore or a dot follows.
Absorbed(txt, i) ==
    /\ i + 1 <= Len(txt)
    /\ txt[i] = "."
    /\ IsDigit(txt[i + 1]) \/ txt[i + 1] \in {"_", "."}

\* The number that starts at the 0-based offset p.
NumberAt(txt, p) ==
    LET whole == DigitRun(txt, p + 1)
        dot == p + 1 + Len(whole)
    IN  IF Absorbed(txt, dot)
        THEN whole \o <<".">> \o DigitRun(txt, dot + 1)
        ELSE whole

Dots(lexeme) == Cardinality({i \in 1..Len(lexeme) : lexeme[i] = "."})

\* C22: where the lexer meets a digit it pushes one token, whose lexeme is
\* the digits and underscores from there on, a dot directly after them if
\* a digit, '_' or '.' follows the dot, and the digits and underscores
\* after that dot; the token is a Float if the lexeme holds a dot and an
\* Integer if not, the lexeme holds at most one dot, and the lexer goes on
\* right after the lexeme, so a dot left out is lexed on its own: a Dot
\* unless it starts `..`.
C22_NumberTokens ==
    [][(/\ variant = "lexer"
        /\ ~halted /\ ~returned
        /\ Lexer_current(text, pos) # NoChar
        /\ IsDigit(Lexer_current(text, pos)))
       => /\ Len(tokens') = Len(tokens) + 1
          /\ IsPrefix(tokens, tokens')
          /\ errors' = errors
          /\ LET tok == tokens'[Len(tokens')]
             IN  /\ tok.lexeme = NumberAt(text, pos)
                 /\ Dots(tok.lexeme) <= 1
                 /\ tok.kind = IF Dots(tok.lexeme) = 1 THEN "Float"
                               ELSE "Integer"
                 /\ pos' = pos + Len(tok.lexeme)
                 /\ (/\ Lexer_current(text, pos') = "."
                     /\ Lexer_peek(text, pos') # ".")
                    => Lexer_match(text, pos').tokens[1].kind = "Dot"
      ]_vars

\* `1.2.3` was lexed: a Float `1.2`, a Dot, an Integer `3`.
C22_Witness ==
    /\ variant = "lexer"
    /\ returned
    /\ text = <<"1", ".", "2", ".", "3">>
    /\ Len(tokens) = 4
    /\ tokens[1].kind = "Float" /\ tokens[1].lexeme = <<"1", ".", "2">>
    /\ tokens[2].kind = "Dot"
    /\ tokens[3].kind = "Integer" /\ tokens[3].lexeme = <<"3">>
    /\ errors = << >>

\* The bytes of the buffer a token other than a string was read from: one
\* for the line break, whose lexeme is spelled `\n`, or those of the lexeme.
SourceBytes(tok) == IF tok.kind = "Newline" THEN 1 ELSE Len(tok.lexeme)

\* C23: every token the lexer has pushed, strings and the end-of-stream
\* token aside, has the span [start, end) with start the offset of its first
\* byte and end - start the number of its bytes; a token starts at or after
\* the end of the one before it.
C23_TokenSpans ==
    variant = "lexer" =>
       /\ \A i \in 1..Len(tokens) :
             tokens[i].kind \notin {"EOF", "String"} =>
                /\ tokens[i].span[2] - tokens[i].span[1]
                      = SourceBytes(tokens[i])
                /\ tokens[i].kind # "Newline" =>
                      text[tokens[i].span[1] + 1] = tokens[i].lexeme[1]
       /\ \A i \in 1..(Len(tokens) - 1) :
             tokens[i].span[2] <= tokens[i + 1].span[1]

\* The operators by their spelling, each with the kind that names it.
OperatorNames ==
    {<<<<"*", "*", "=">>, "StarStarEqual">>, <<<<"*", "*">>, "StarStar">>,
     <<<<"*", "=">>, "StarEqual">>, <<<<"*">>, "Star">>,
     <<<<"/", "/", "=">>, "SlashSlashEqual">>, <<<<"/", "/">>, "SlashSlash">>,
     <<<<"/", "=">>, "SlashEqual">>, <<<<"/">>, "Slash">>,
     <<<<"+", "+">>, "PlusPlus">>, <<<<"+", "=">>, "PlusEqual">>,
     <<<<"+">>, "Plus">>,
     <<<<"-", "-">>, "MinusMinus">>, <<<<"-", "=">>, "MinusEqual">>,
     <<<<"-", ">">>, "RArrow">>, <<<<"-">>, "Minus">>,
     <<<<"<", "=">>, "LessEqual">>, <<<<"<">>, "Less">>,
     <<<<">", "=">>, "MoreEqual">>, <<<<">">>, "More">>,
     <<<<"=", "=">>, "EqualEqual">>, <<<<"=">>, "Equal">>,
     <<<<"!", "=">>, "BangEqual">>, <<<<"!">>, "Bang">>,
     <<<<"|", "|">>, "PipePipe">>, <<<<"|">>, "Pipe">>,
     <<<<"&", "&">>, "AmprsndAmprsnd">>, <<<<"&">>, "Amprsnd">>,
     <<<<".", ".", ".">>, "Ellipsis">>, <<<<".">>, "Dot">>}

\* The operators spelled in txt from the 0-based offset p on.
SpelledAt(txt, p) ==
    {o \in OperatorNames :
        /\ p + Len(o[1]) <= Len(txt)
        /\ SubSeq(txt, p + 1, p + Len(o[1])) = o[1]}

LongestAt(txt, p) ==
    CHOOSE o \in SpelledAt(txt, p) :
        \A o2 \in SpelledAt(txt, p) : Len(o2[1]) <= Len(o[1])

\* C24: where an operator is spelled the lexer pushes one token, its lexeme
\* the longest operator spelled there and its kind the one that names the
\* lexeme, and goes on right after it.
C24_LongestOperator ==
    [][(/\ variant = "lexer"
        /\ ~halted /\ ~returned
        /\ SpelledAt(text, pos) # {})
       => /\ Len(tokens') = Len(tokens) + 1
          /\ IsPrefix(tokens, tokens')
          /\ errors' = errors
          /\ tokens'[Len(tokens')].lexeme = LongestAt(text, pos)[1]
          /\ tokens'[Len(tokens')].kind = LongestAt(text, pos)[2]
          /\ pos' = pos + Len(LongestAt(text, pos)[1])
      ]_vars

\* ------------------------------------- compile/backend.rs: RegisterAlloc

\* alloc that starts over at register 0 when the pool is full.
alloc_wraps(regs) ==
    IF \E i \in 0..(MAX_REGISTERS - 1) : ~regs[i]
    THEN CHOOSE i \in 0..(MAX_REGISTERS - 1) :
            ~regs[i] /\ \A j \in 0..(i - 1) : regs[j]
    ELSE 0

\* RegisterAlloc::alloc: the first unoccupied index, NoRegister for the
\* panic when there is none.
alloc(regs) ==
    IF \E i \in 0..(MAX_REGISTERS - 1) : ~regs[i]
    THEN CHOOSE i \in 0..(MAX_REGISTERS - 1) :
            ~regs[i] /\ \A j \in 0..(i - 1) : regs[j]
    ELSE NoRegister

\* The pool after alloc returned reg.
\* An alloc that forgets to set the flag of the register it returns.
leave_free(regs, reg) == regs

occupy(regs, reg) == [regs EXCEPT ![reg] = TRUE]

\* The two assertions of RegisterAlloc::free.
free_ok(regs, reg) == reg < MAX_REGISTERS /\ regs[reg]

RegisterAlloc_alloc ==
    /\ variant = "pool"
    /\ ~halted
    /\ \E reg \in {alloc(registers)} :
          IF reg = NoRegister
          THEN /\ halted' = TRUE
               /\ allocated' = NoRegister
               /\ registers' = registers
          ELSE /\ registers' = occupy(registers, reg)
               /\ allocated' = reg
               /\ halted' = halted
    /\ freed' = NoRegister
    /\ UNCHANGED <<variant, errors, compiler, instrs, symbols, file, created,
                   compiled>>
    /\ UNCHANGED <<resolver_vars, parser_vars, lexer_vars>>

RegisterAlloc_free(reg) ==
    /\ variant = "pool"
    /\ ~halted
    /\ IF free_ok(registers, reg)
       THEN /\ registers' = [registers EXCEPT ![reg] = FALSE]
            /\ halted' = halted
       ELSE /\ halted' = TRUE
            /\ registers' = registers
    /\ freed' = reg
    /\ allocated' = NoRegister
    /\ UNCHANGED <<variant, errors, compiler, instrs, symbols, file, created,
                   compiled>>
    /\ UNCHANGED <<resolver_vars, parser_vars, lexer_vars>>

\* The registers a caller asks free for: the first ones, the last one and
\* the first index beyond the pool.
FreedRegisters == {0, 1, 2, MAX_REGISTERS - 1, MAX_REGISTERS}

InitPool ==
    /\ variant = "pool"
    /\ errors = << >>
    /\ halted = FALSE
    /\ scopes = <<EmptyScope>>
    /\ curr_scope = 0
    /\ stmt = NoStmt
    /\ result = Ok("Nil")
    /\ idx = 0
    /\ source = << >>
    /\ pos = 0
    /\ uid = 0
    /\ ast = << >>
    /\ returned = FALSE
    /\ NoLexer
    /\ NoCompiler

NextPool ==
    \/ RegisterAlloc_alloc
    \/ \E reg \in FreedRegisters : RegisterAlloc_free(reg)

SpecPool == InitPool /\ [][NextPool]_vars

\* C16: a call of alloc that returns hands out an index of the pool that
\* was unoccupied and marks it, and nothing else, occupied - so no register
\* that is live (handed out and not freed since) is handed out; alloc on a
\* full pool is fatal and leaves the pool as it was; free of an occupied
\* register of the pool marks it, and nothing else, unoccupied; free of an
\* unoccupied or out-of-range index is fatal.
C16_RegisterPool ==
    [][(variant = "pool" /\ ~halted) =>
         /\ allocated' # NoRegister =>
              /\ allocated' \in 0..(MAX_REGISTERS - 1)
              /\ ~registers[allocated']
              /\ registers' = [registers EXCEPT ![allocated'] = TRUE]
              /\ ~halted'
         /\ (allocated' = NoRegister /\ freed' = NoRegister) =>
              /\ \A i \in 0..(MAX_REGISTERS - 1) : registers[i]
              /\ halted'
              /\ registers' = registers
         /\ ((\A i \in 0..(MAX_REGISTERS - 1) : registers[i])
                /\ freed' = NoRegister) => halted'
         /\ freed' # NoRegister =>
              IF freed' \in 0..(MAX_REGISTERS - 1) /\ registers[freed']
              THEN /\ registers' = [registers EXCEPT ![freed'] = FALSE]
                   /\ ~halted'
              ELSE /\ halted'
                   /\ registers' = registers
      ]_vars

\* Register 1 was freed and handed out again while 0 and 2 stayed live.
C16_Witness ==
    /\ variant = "pool"
    /\ ~halted
    /\ allocated = 1
    /\ registers = [i \in 0..(MAX_REGISTERS - 1) |-> i <= 2]

\* ------------------- compile/instructions.rs, compile/frontend.rs: Compiler

\* Instruction::LoadInt(usize, i32), Instruction::Add and Instruction::Sub
\* (usize, usize, usize): the fields in the order the enum declares them.
LoadInt(r, v) == [op |-> "LoadInt", fields |-> <<r, v>>]

Add(dest, l, r) == [op |-> "Add", fields |-> <<dest, l, r>>]

\* A Sub whose operands changed places.
Sub_swapped(dest, l, r) == [op |-> "Sub", fields |-> <<dest, r, l>>]

Sub(dest, l, r) == [op |-> "Sub", fields |-> <<dest, l, r>>]

\* One line of the .ksb file: the mnemonic and then the operands, a register
\* `R{}` or a bare number `{}`.
R(n) == <<"R", n>>

Imm(v) == <<"", v>>

DUMP == <<"DUMP">>

EXIT == <<"EXIT">>

\* compile::instructions::Instruction::to_string.
Instruction_to_string(inst) ==
    CASE inst.op = "LoadInt" ->
            <<"LDI", R(inst.fields[1]), Imm(inst.fields[2])>>
      [] inst.op = "Add" ->
            <<"ADD", R(inst.fields[1]), R(inst.fields[2]), R(inst.fields[3])>>
      [] inst.op = "Sub" ->
            <<"SUB", R(inst.fields[1]), R(inst.fields[2]), R(inst.fields[3])>>

\* What compile_expr and compile_stmt leave behind: the register returned,
\* the pool, the bindings and the instructions; or a panic.
COk(reg, regs, syms, ins) ==
    [tag |-> "Ok", reg |-> reg, regs |-> regs, syms |-> syms, instrs |-> ins]

CPanic == [tag |-> "Panic"]

\* A get that answers register 0 for every name that is bound.
get_zero(syms, name) == IF name \in DOMAIN syms THEN 0 ELSE NoRegister

\* backend::get and backend::store on the name -> register map.
backend_get(syms, name) == IF name \in DOMAIN syms THEN syms[name] ELSE NoRegister

backend_store(syms, name, register) ==
    [n \in DOMAIN syms \cup {name} |->
        IF n = name THEN register ELSE syms[n]]

\* Compiler::compile_expr.
RECURSIVE compile_expr(_, _, _, _)
compile_expr(e, regs, syms, ins) ==
    CASE e.kind = "Integer" ->
            IF alloc(regs) = NoRegister THEN CPanic
            ELSE COk(alloc(regs), occupy(regs, alloc(regs)), syms,
                     Append(ins, LoadInt(alloc(regs), e.value)))
      [] e.kind = "Ident" ->
            IF backend_get(syms, e.name) = NoRegister THEN CPanic
            ELSE COk(backend_get(syms, e.name), regs, syms, ins)
      [] e.kind = "Binary" ->
            Bind(compile_expr(e.lhs, regs, syms, ins), LAMBDA lhs_r :
            IF lhs_r.tag # "Ok" THEN CPanic
            ELSE Bind(compile_expr(e.rhs, lhs_r.regs, syms, lhs_r.instrs),
                      LAMBDA rhs_r :
                 IF rhs_r.tag # "Ok" THEN CPanic
                 ELSE Bind(alloc(rhs_r.regs), LAMBDA dest :
                      IF dest = NoRegister THEN CPanic
                      ELSE CASE e.op = "Plus" ->
                                  COk(dest, occupy(rhs_r.regs, dest), syms,
                                      Append(rhs_r.instrs,
                                             Add(dest, lhs_r.reg, rhs_r.reg)))
                             [] e.op = "Minus" ->
                                  COk(dest, occupy(rhs_r.regs, dest), syms,
                                      Append(rhs_r.instrs,
                                             Sub(dest, lhs_r.reg, rhs_r.reg)))
                             [] OTHER -> CPanic)))
      [] OTHER -> CPanic

\* compile_stmt that passes over what it does not implement.
compile_stmt_skips(st, regs, syms, ins) ==
    IF st.kind = "VariableDecl"
       /\ compile_expr(st.value, regs, syms, ins).tag = "Ok"
    THEN Bind(compile_expr(st.value, regs, syms, ins), LAMBDA register :
         COk(register.reg, register.regs,
             backend_store(syms, st.name, register.reg), register.instrs))
    ELSE COk(NoRegister, regs, syms, ins)

\* Compiler::compile_stmt.
compile_stmt(st, regs, syms, ins) ==
    IF st.kind = "VariableDecl"
    THEN Bind(compile_expr(st.value, regs, syms, ins), LAMBDA register :
         IF register.tag # "Ok" THEN CPanic
         ELSE COk(register.reg, register.regs,
                  backend_store(syms, st.name, register.reg), register.instrs))
    ELSE CPanic

\* A compiler runs on the statements a parser returned, or on a vector of
\* statements it was constructed with.
Compiling ==
    /\ ~halted
    /\ \/ variant = "compile"
       \/ variant = "ast" /\ returned

\* Compiler::compile, its first statement: File::create(name + ".ksb").
Compiler_compile_create ==
    /\ compiler = "compile"
    /\ Compiling
    /\ ~created
    /\ created' = TRUE
    /\ file' = << >>
    /\ UNCHANGED <<variant, errors, halted, compiler, registers, allocated,
                   freed, instrs, symbols, compiled>>
    /\ UNCHANGED <<resolver_vars, parser_vars, lexer_vars>>

\* Compiler::compile, one iteration of `for stmt in self.stream`; the file
\* was created, empty, before the loop.
Compiler_compile_stmt ==
    /\ compiler = "compile"
    /\ Compiling
    /\ created
    /\ file = << >>
    /\ compiled < Len(ast)
    /\ \E r \in {compile_stmt(ast[compiled + 1], registers, symbols, instrs)} :
          IF r.tag = "Panic"
          THEN /\ halted' = TRUE
               /\ UNCHANGED <<registers, symbols, instrs, compiled>>
          ELSE /\ registers' = r.regs
               /\ symbols' = r.syms
               /\ instrs' = r.instrs
               /\ compiled' = compiled + 1
               /\ halted' = halted
    /\ UNCHANGED <<variant, errors, compiler, allocated, freed, file, created>>
    /\ UNCHANGED <<resolver_vars, parser_vars, lexer_vars>>

\* Compiler::compile after the loop: every instruction, then "DUMP\nEXIT".
Compiler_compile_return ==
    /\ compiler = "compile"
    /\ Compiling
    /\ created
    /\ file = << >>
    /\ compiled = Len(ast)
    /\ file' = [i \in 1..Len(instrs) |-> Instruction_to_string(instrs[i])]
               \o <<DUMP, EXIT>>
    /\ UNCHANGED <<variant, errors, halted, compiler, registers, allocated,
                   freed, instrs, symbols, created, compiled>>
    /\ UNCHANGED <<resolver_vars, parser_vars, lexer_vars>>

\* ------------------------------------------ compiler/compiler.rs: Compiler

\* Instruction::LoadInteger(u8, i32), Instruction::Add and Instruction::Sub
\* (u8, u8, u8) of compiler::compiler, fields in the order of the enum.
LoadInteger(a, v) == [op |-> "LoadInteger", fields |-> <<a, v>>]

CompilerAdd(lhs, rhs, dest) == [op |-> "Add", fields |-> <<lhs, rhs, dest>>]

CompilerSub(lhs, rhs, dest) == [op |-> "Sub", fields |-> <<lhs, rhs, dest>>]

\* compiler::compiler::Instruction::to_string.
CompilerInstruction_to_string(inst) ==
    CASE inst.op = "LoadInteger" ->
            <<"LDI", R(inst.fields[1]), Imm(inst.fields[2])>>
      [] inst.op = "Add" ->
            <<"ADD", R(inst.fields[1]), R(inst.fields[2]), R(inst.fields[3])>>
      [] inst.op = "Sub" ->
            <<"SUB", R(inst.fields[1]), R(inst.fields[2]), R(inst.fields[3])>>

\* Instruction::encode_expr: a binary operation on two integer literals;
\* << >> stands for the unimplemented!() of every other expression.
encode_expr(e) ==
    IF e.kind = "Binary"
       /\ e.lhs.kind = "Integer" /\ e.rhs.kind = "Integer"
       /\ e.op \in {"Plus", "Minus"}
    THEN <<LoadInteger(0, e.lhs.value), LoadInteger(1, e.rhs.value),
           IF e.op = "Plus" THEN CompilerAdd(0, 1, 0)
           ELSE CompilerSub(0, 1, 0)>>
    ELSE << >>

\* Instruction::encode_stmt.
encode_stmt(st) ==
    CASE st.kind = "VariableDecl" -> encode_expr(st.value)
      [] st.kind = "Expression" -> encode_expr(st.expr)
      [] OTHER -> << >>

\* The file ends with the EXIT line.
Exited == file # << >> /\ file[Len(file)] = EXIT

\* Compiler::compile_file, its first statements: File::create.
Compiler_compile_file_create ==
    /\ compiler = "compiler"
    /\ Compiling
    /\ ~created
    /\ created' = TRUE
    /\ file' = << >>
    /\ UNCHANGED <<variant, errors, halted, compiler, registers, allocated,
                   freed, instrs, symbols, compiled>>
    /\ UNCHANGED <<resolver_vars, parser_vars, lexer_vars>>

\* Compiler::compile_file, one iteration of `for stmt in compiler.stream`:
\* the instructions of the statement are written at once.
Compiler_compile_file ==
    /\ compiler = "compiler"
    /\ Compiling
    /\ created
    /\ ~Exited
    /\ compiled < Len(ast)
    /\ \E insts \in {encode_stmt(ast[compiled + 1])} :
          IF insts = << >>
          THEN /\ halted' = TRUE
               /\ UNCHANGED <<file, compiled>>
          ELSE /\ file' = file \o [i \in 1..Len(insts) |->
                                     CompilerInstruction_to_string(insts[i])]
               /\ compiled' = compiled + 1
               /\ halted' = halted
    /\ UNCHANGED <<variant, errors, compiler, registers, allocated, freed,
                   instrs, symbols, created>>
    /\ UNCHANGED <<resolver_vars, parser_vars, lexer_vars>>

\* Compiler::compile_file after the loop: "EXIT".
Compiler_compile_file_return ==
    /\ compiler = "compiler"
    /\ Compiling
    /\ created
    /\ ~Exited
    /\ compiled = Len(ast)
    /\ file' = Append(file, EXIT)
    /\ UNCHANGED <<variant, errors, halted, compiler, registers, allocated,
                   freed, instrs, symbols, created, compiled>>
    /\ UNCHANGED <<resolver_vars, parser_vars, lexer_vars>>

\* ---------------------------------------------------- the compiler stage

MaxCompiled == 2    \* statements of a program handed to a compiler

IntTok(c) == Tok("Integer", <<c>>)

\* `let name = ` value `;`
LetStatement(c, value) ==
    <<Sym("Let"), Name(c), Sym("Equal")>> \o value \o <<Sym("Semicolon")>>

\* `let x = 1 - 2 - 3 ;`
LetChain ==
    LetStatement("x", <<IntTok("1"), Sym("Minus"), IntTok("2"), Sym("Minus"),
                        IntTok("3")>>)

\* The statements of the programs that are parsed and then compiled: the
\* chain, an integer, a difference with a name, a name, a difference of two
\* integers, the other literals, and an assignment.
CompileStatements ==
    {LetChain,
     LetStatement("x", <<IntTok("1")>>),
     LetStatement("y", <<Name("x"), Sym("Minus"), IntTok("2")>>),
     LetStatement("y", <<Name("x")>>),
     LetStatement("y", <<IntTok("1"), Sym("Minus"), IntTok("2")>>),
     LetStatement("y", <<Tok("Float", <<"1", ".", "5">>)>>),
     LetStatement("y", <<Tok("String", <<"s">>)>>),
     LetStatement("y", <<Sym("True")>>),
     <<Name("x"), Sym("Equal"), IntTok("2"), Sym("Semicolon")>>}

\* Programs of at most MaxCompiled statements; those of three chains and
\* then nothing, one or two integers or another chain, which ask for 15, 16,
\* 17 and 20 registers; a name declared twice and then read; a name read
\* twice in one operation.
CompileSources ==
    {Concat(ss) : ss \in SeqsUpTo(CompileStatements, MaxCompiled)}
    \cup {LetChain \o LetChain \o LetChain \o t :
            t \in {<< >>, LetStatement("y", <<IntTok("1")>>),
                   LetStatement("y", <<IntTok("1")>>)
                      \o LetStatement("y", <<IntTok("1")>>),
                   LetChain}}
    \cup {LetStatement("x", <<IntTok("1")>>)
             \o LetStatement("x", <<IntTok("1"), Sym("Minus"), IntTok("2")>>)
             \o LetStatement("y", <<Name("x")>>),
          LetStatement("x", <<IntTok("1")>>)
             \o LetStatement("y", <<Name("x"), Sym("Minus"), Name("x")>>)}

\* Statements no parser of the repository produces but a compiler can be
\* constructed with: sums, and a binary node with the assignment operator.
CompileNodes ==
    {VariableDecl(FALSE, <<"x">>, NoType,
                  Binary(Literal("Integer", 1, 3), Literal("Integer", 2, 5), o)) :
        o \in {"Plus", "Minus", "AssignEqual"}}
    \cup
    {VariableDecl(FALSE, <<"y">>, NoType,
                  Binary(Binary(Literal("Integer", 1, 3), Ident(<<"x">>, 5), o),
                         Literal("Integer", 3, 7), "Plus")) :
        o \in {"Plus", "Minus"}}
    \cup
    {Expression(Binary(Literal("Integer", 1, 0), Literal("Integer", 2, 2), "Plus"))}

CompileStreams == SeqsUpTo(CompileNodes, MaxCompiled)

InitCompile ==
    /\ compiler \in {"compile", "compiler"}
    /\ variant \in {"ast", "compile"}
    /\ IF variant = "ast"
       THEN /\ source \in {Spanned(t \o <<Token_eof>>) : t \in CompileSources}
            /\ ast = << >>
       ELSE /\ source = << >>
            /\ ast \in CompileStreams
    /\ pos = 0
    /\ uid = 0
    /\ errors = << >>
    /\ halted = FALSE
    /\ returned = FALSE
    /\ scopes = <<EmptyScope>>
    /\ curr_scope = 0
    /\ stmt = NoStmt
    /\ result = Ok("Nil")
    /\ idx = 0
    /\ NoLexer
    /\ registers = RegisterAlloc_new
    /\ allocated = NoRegister
    /\ freed = NoRegister
    /\ instrs = << >>
    /\ symbols = << >>
    /\ file = << >>
    /\ created = FALSE
    /\ compiled = 0

NextCompile ==
    \/ Parser_parse
    \/ Parser_parse_return
    \/ Compiler_compile_create
    \/ Compiler_compile_stmt
    \/ Compiler_compile_return
    \/ Compiler_compile_file_create
    \/ Compiler_compile_file
    \/ Compiler_compile_file_return

SpecCompile == InitCompile /\ [][NextCompile]_vars

\* ------------------------------------------------------- claims: compiler

\* What an expression makes the compiler emit, operation by operation: the
\* left operand's, then the right operand's, then its own.
RECURSIVE Emitted(_)
Emitted(e) ==
    CASE e.kind = "Integer" -> <<<<"LoadInt", e.value>>>>
      [] e.kind = "Binary" ->
            Emitted(e.lhs) \o Emitted(e.rhs)
            \o <<<<IF e.op = "Plus" THEN "Add" ELSE "Sub", 0>>>>
      [] OTHER -> << >>

OperationOf(inst) ==
    <<inst.op, IF inst.op = "LoadInt" THEN inst.fields[2] ELSE 0>>

ChainSource == Spanned(LetChain \o <<Token_eof>>)

\* C17: a statement the compiler gets through appends to the instructions
\* what its initializer emits, left operand before right operand before the
\* operation; for `let x = 1 - 2 - 3;` these are a load of 1, of 2 and of 3
\* into three registers, a SUB of the second and third, and a SUB of the
\* first and the destination of that SUB, whose destination x is bound to.
C17_ChainOrder ==
    [][(compiler = "compile" /\ compiled' = compiled + 1) =>
         /\ Len(instrs') >= Len(instrs)
         /\ SubSeq(instrs', 1, Len(instrs)) = instrs
         /\ [i \in 1..(Len(instrs') - Len(instrs)) |->
               OperationOf(instrs'[Len(instrs) + i])]
            = Emitted(ast[compiled'].value)
         /\ source = ChainSource =>
              /\ Len(instrs') = 5
              /\ \A i \in 1..3 :
                    /\ instrs'[i].op = "LoadInt"
                    /\ instrs'[i].fields[2] = i
              /\ instrs'[4].op = "Sub"
              /\ instrs'[4].fields[2] = instrs'[2].fields[1]
              /\ instrs'[4].fields[3] = instrs'[3].fields[1]
              /\ instrs'[5].op = "Sub"
              /\ instrs'[5].fields[2] = instrs'[1].fields[1]
              /\ instrs'[5].fields[3] = instrs'[4].fields[1]
              /\ Cardinality({instrs'[i].fields[1] : i \in 1..5}) = 5
              /\ symbols'[<<"x">>] = instrs'[5].fields[1]
      ]_vars

\* `let x = 1 - 2 - 3;` was parsed and compiled into registers 0 to 4.
C17_Witness ==
    /\ compiler = "compile"
    /\ source = ChainSource
    /\ compiled = 1
    /\ instrs = <<LoadInt(0, 1), LoadInt(1, 2), LoadInt(2, 3),
                  [op |-> "Sub", fields |-> <<3, 1, 2>>],
                  [op |-> "Sub", fields |-> <<4, 0, 3>>]>>
    /\ symbols[<<"x">>] = 4

\* The instructions compiler::Compiler has emitted for the statements it
\* got through.
RECURSIVE Encoded(_, _)
Encoded(stream, n) ==
    IF n = 0 THEN << >>
    ELSE Encoded(stream, n - 1) \o encode_stmt(stream[n])

\* The line `OP R<dest> R<lhs> R<rhs>`, `LDI R<reg> <value>` for a load.
Line(op, operands) ==
    CASE op \in {"LoadInt", "LoadInteger"} ->
            <<"LDI", R(operands[1]), Imm(operands[2])>>
      [] op = "Add" -> <<"ADD", R(operands[1]), R(operands[2]), R(operands[3])>>
      [] op = "Sub" -> <<"SUB", R(operands[1]), R(operands[2]), R(operands[3])>>

\* dest, lhs, rhs of an instruction of compiler::compiler, whose enum
\* declares them lhs, rhs, dest.
DestFirst(inst) ==
    IF inst.op = "LoadInteger" THEN inst.fields
    ELSE <<inst.fields[3], inst.fields[1], inst.fields[2]>>

\* C18: the file a compiler has finished is its instructions in emission
\* order, one line each, `LDI R<reg> <value>`, `ADD R<dest> R<lhs> R<rhs>`
\* or `SUB R<dest> R<lhs> R<rhs>`, then possibly a DUMP line, then EXIT;
\* nothing is written after EXIT.  For both compilers.
C18_BytecodeFormat ==
    /\ [](Exited =>
            \E tl \in {<<EXIT>>, <<DUMP, EXIT>>} :
               file =
                 (IF compiler = "compile"
                  THEN [i \in 1..Len(instrs) |->
                          Line(instrs[i].op, instrs[i].fields)]
                  ELSE [i \in 1..Len(Encoded(ast, compiled)) |->
                          Line(Encoded(ast, compiled)[i].op,
                               DestFirst(Encoded(ast, compiled)[i]))])
                 \o tl)
    /\ [][Exited => file' = file]_vars

\* Where the expression is one the compiler does not get through: not an
\* integer, a name with a register, or a `+`/`-` of two such expressions.
RECURSIVE Unsupported(_, _)
Unsupported(e, syms) ==
    CASE e.kind = "Integer" -> FALSE
      [] e.kind = "Ident" -> e.name \notin DOMAIN syms
      [] e.kind = "Binary" ->
            \/ e.op \notin {"Plus", "Minus"}
            \/ Unsupported(e.lhs, syms)
            \/ Unsupported(e.rhs, syms)
      [] OTHER -> TRUE

\* C19: compile::frontend::Compiler meeting a statement that is not a
\* variable declaration, or whose initializer holds an unsupported
\* expression or reads a name without a register, aborts: the statement
\* count stays, no diagnostic is recorded, nothing is written; and an
\* aborted compile takes no further step and has written no bytecode.
C19_FailFast ==
    /\ [][(compiler = "compile" /\ Compiling /\ compiled < Len(ast)
             /\ created /\ file = << >>
             /\ (\/ ast[compiled + 1].kind # "VariableDecl"
                 \/ Unsupported(ast[compiled + 1].value, symbols))) =>
            /\ halted'
            /\ compiled' = compiled
            /\ errors' = errors
            /\ file' = << >>
        ]_vars
    /\ [][(compiler = "compile" /\ halted) => UNCHANGED vars]_vars
    /\ []((compiler = "compile" /\ halted) => file = << >>)

\* `let x = 1; x = 2;`: the declaration was compiled, the assignment
\* statement ended the compile.
C19_Witness ==
    /\ compiler = "compile"
    /\ source = Spanned(LetStatement("x", <<IntTok("1")>>)
                        \o <<Name("x"), Sym("Equal"), IntTok("2"),
                             Sym("Semicolon"), Token_eof>>)
    /\ halted
    /\ compiled = 1
    /\ instrs = <<LoadInt(0, 1)>>
    /\ errors = << >>
    /\ file = << >>

\* ---------------------------------------- claims: the resolve loop again

\* The result of the first operand that fails, when the statement declares
\* a name with a binary operation as initializer; Ok when none fails.
FirstOperandError(s) ==
    IF OperandType(s.value.lhs).tag = "Err" THEN OperandType(s.value.lhs)
    ELSE IF OperandType(s.value.lhs).tag = "Ok"
            /\ OperandType(s.value.rhs).tag = "Err"
    THEN OperandType(s.value.rhs)
    ELSE Ok("Nil")

BodyNames(s) == {s.body[i].name : i \in 1..Len(s.body)}

\* C21: in the type checkers the scope stack always holds the global scope,
\* its depth is 1 between top-level statements, and a name declared in the
\* body of a function, and nowhere before the function, is declared in no
\* scope once the function statement has been gone through.
C21_FunctionScopes ==
    /\ [](variant \in {"compiler", "semantics"} =>
            /\ Len(scopes) >= 1
            /\ ~halted => Len(scopes) = 1)
    /\ [][(/\ ResolveStep
           /\ variant = "semantics"
           /\ stmt'.kind = "Function") =>
            \A n \in BodyNames(stmt') \ {stmt'.name} :
               Undeclared(n) =>
                  \A i \in 1..Len(scopes') : ~ScopeHas(scopes'[i], n)
        ]_vars

\* ---------------------------------------------- claims: the output file

\* C26: no statement is compiled once the .ksb file has been created, and
\* a compile that ended in a fatal condition has not created it.
C26_SinkAfterEmission ==
    /\ [][(compiler # "none" /\ compiled' # compiled) => ~created]_vars
    /\ []((compiler # "none" /\ halted) => ~created)

\* ------------------------------------------------ claims: reads of names

Occupied(regs) == {i \in 0..(MAX_REGISTERS - 1) : regs[i]}

\* C27: a declaration whose initializer is a name, compiled, adds no
\* instruction and occupies no register: it binds the declared name to the
\* register the name read is bound to and leaves every other binding alone;
\* a name read as an operand of an operation stands in the instruction as
\* the register it is bound to, and the operation appends and occupies only
\* what its other operands and itself ask for.
C27_IdentRead ==
    [][(compiler = "compile" /\ compiled' = compiled + 1) =>
         LET st == ast[compiled']
         IN  /\ st.value.kind = "Ident" =>
                  /\ instrs' = instrs
                  /\ registers' = registers
                  /\ st.value.name \in DOMAIN symbols
                  /\ DOMAIN symbols' = DOMAIN symbols \cup {st.name}
                  /\ symbols'[st.name] = symbols[st.value.name]
                  /\ \A n \in DOMAIN symbols \ {st.name} :
                        symbols'[n] = symbols[n]
             /\ st.value.kind = "Binary" =>
                  /\ st.value.lhs.kind = "Ident" =>
                        instrs'[Len(instrs')].fields[2]
                           = symbols[st.value.lhs.name]
                  /\ st.value.rhs.kind = "Ident" =>
                        instrs'[Len(instrs')].fields[3]
                           = symbols[st.value.rhs.name]
                  /\ Len(instrs') = Len(instrs) + Len(Emitted(st.value))
                  /\ Cardinality(Occupied(registers'))
                        = Cardinality(Occupied(registers))
                          + Len(Emitted(st.value))
      ]_vars

\* `let x = 1; let x = 1 - 2; let y = x;` was compiled: y shares register 3
\* with the second x, four instructions were emitted.
C27_Witness ==
    /\ compiler = "compile"
    /\ variant = "ast"
    /\ compiled = 3
    /\ ast[3].value.kind = "Ident"
    /\ Len(instrs) = 4
    /\ symbols[<<"x">>] = 3
    /\ symbols[<<"y">>] = 3
    /\ Occupied(registers) = 0..3

\* ------------------------------------------- claims: the resolver's scopes

\* C28: in Resolver::resolve_stmt a declaration that succeeds changes the
\* scope stack only in the current scope, where the declared name is bound
\* to the initializer's type and the declaration's mutability, whatever it
\* was bound to before, and every other name keeps its binding; a
\* declaration that fails, and every expression statement, leaves the
\* scope stack as it was.
C28_DeclarationFrame ==
    [][(ResolveStep /\ variant = "analysis") =>
         /\ curr_scope' = curr_scope
         /\ Len(scopes') = Len(scopes)
         /\ (stmt'.kind = "VariableDecl" /\ result'.tag = "Ok") =>
              LET t == resolve_expr(scopes, curr_scope, stmt'.value)
                  c == curr_scope + 1
              IN  /\ t.tag = "Ok"
                  /\ \A i \in 1..Len(scopes) : i # c => scopes'[i] = scopes[i]
                  /\ DOMAIN scopes'[c] = DOMAIN scopes[c] \cup {stmt'.name}
                  /\ scopes'[c][stmt'.name] = Value(t.typ, stmt'.mutable)
                  /\ \A n \in DOMAIN scopes[c] \ {stmt'.name} :
                        scopes'[c][n] = scopes[c][n]
         /\ (stmt'.kind = "VariableDecl" /\ result'.tag # "Ok") =>
              /\ scopes' = scopes
              /\ \/ resolve_expr(scopes, curr_scope, stmt'.value).tag # "Ok"
                 \/ /\ stmt'.typ # NoType
                    /\ AnnotatedType(stmt'.typ)
                         # resolve_expr(scopes, curr_scope, stmt'.value).typ
         /\ stmt'.kind # "VariableDecl" => scopes' = scopes
      ]_vars

\* `let x = 1; mut x = x;` was resolved: the second declaration read the
\* first x and replaced it by a mutable one of the same type.
C28_Witness ==
    /\ variant = "analysis"
    /\ idx = 2
    /\ errors = << >>
    /\ stmt = VariableDecl(TRUE, "x", NoType, Ident("x", 3))
    /\ result.tag = "Ok"
    /\ DOMAIN scopes[1] = {"x"}
    /\ scopes[1]["x"] = Value("Integer", TRUE)

\* ------------------------------------------- claims: the register pool

\* The integer literals and binary operations of the first k statements.
RECURSIVE Need(_, _)
Need(stmts, k) ==
    IF k = 0 THEN 0
    ELSE Need(stmts, k - 1) + Len(Emitted(stmts[k].value))

\* C29: in a compile the occupied registers are 0 .. n-1 where n is the
\* number of instructions, the i-th instruction has destination i-1, and n
\* is the number of integer literals and binary operations of the
\* statements compiled; no step takes a register out of the occupied ones;
\* a declaration the compiler supports ends the compile exactly when its
\* literals and operations, added to the occupied registers, are more than
\* MAX_REGISTERS; a compile that has written its file needed at most
\* MAX_REGISTERS.
C29_NeverFreed ==
    /\ [](compiler = "compile" =>
            /\ Occupied(registers) = 0..(Len(instrs) - 1)
            /\ \A i \in 1..Len(instrs) : instrs[i].fields[1] = i - 1
            /\ Len(instrs) = Need(ast, compiled)
            /\ (file # << >>) => Need(ast, Len(ast)) <= MAX_REGISTERS)
    /\ [][compiler = "compile" =>
            Occupied(registers) \subseteq Occupied(registers')]_vars
    /\ [][(compiler = "compile" /\ Compiling /\ created /\ file = << >>
             /\ compiled < Len(ast)
             /\ ast[compiled + 1].kind = "VariableDecl"
             /\ ~Unsupported(ast[compiled + 1].value, symbols)) =>
            (halted' <=>
               Cardinality(Occupied(registers))
                 + Len(Emitted(ast[compiled + 1].value)) > MAX_REGISTERS)
        ]_vars

\* Three chains and `let y = 1;` were compiled and written: all 16
\* registers are occupied.
C29_Witness ==
    /\ compiler = "compile"
    /\ ~halted
    /\ file # << >>
    /\ Len(ast) = 4
    /\ Len(instrs) = MAX_REGISTERS
    /\ \A i \in 0..(MAX_REGISTERS - 1) : registers[i]

\* ------------------------------------- claims: the emitted instructions

Destinations(ins) == {ins[i].fields[1] : i \in 1..Len(ins)}

\* The registers an instruction reads.
Operands(inst) ==
    IF inst.op \in {"Add", "Sub"} THEN {inst.fields[2], inst.fields[3]} ELSE {}

\* C30: in the instructions of a compile that wrote its file, no two
\* instructions have the same destination and every occupied register is a
\* destination; the registers an ADD or SUB reads are destinations of
\* instructions before it; every register is below MAX_REGISTERS; every
\* bound name is bound to the destination of an instruction.
C30_SingleAssignment ==
    (compiler = "compile" /\ ~halted /\ file # << >>) =>
        /\ \A i, j \in 1..Len(instrs) :
              instrs[i].fields[1] = instrs[j].fields[1] => i = j
        /\ Occupied(registers) = Destinations(instrs)
        /\ \A i \in 1..Len(instrs) :
              /\ instrs[i].op \in {"LoadInt", "Add", "Sub"}
              /\ Operands(instrs[i])
                   \subseteq Destinations(SubSeq(instrs, 1, i - 1))
              /\ (Operands(instrs[i]) \cup {instrs[i].fields[1]})
                   \subseteq 0..(MAX_REGISTERS - 1)
        /\ \A n \in DOMAIN symbols : symbols[n] \in Destinations(instrs)

\* `let x = 1; let y = x - x;` was compiled and written: a load into
\* register 0 and a SUB of register 0 and register 0 into register 1.
C30_Witness ==
    /\ compiler = "compile"
    /\ ~halted
    /\ file # << >>
    /\ instrs = <<LoadInt(0, 1), Sub(1, 0, 0)>>
    /\ symbols[<<"x">>] = 0
    /\ symbols[<<"y">>] = 1

====
